---- MODULE Spec2Model ----
(***************************************************************************)
(* NovaTrace front end: the App shell with its FileUpload / RetrainModel   *)
(* children (asynchronous upload, classification and retrain requests),    *)
(* and the derived views ClassificationResults, PlanetSystem3D and         *)
(* DataExploration (pure recomputations from the current table).           *)
(***************************************************************************)
EXTENDS Integers, Sequences, FiniteSets, TLC

VARIABLES
  \* App (useState hooks)
  activeTab, previewData, classificationData, loading, selectedDisposition,
  \* FileUpload instance (mounted only while activeTab = "upload")
  dragActive, error, retrainOpen,
  \* in-flight executions of FileUpload.handleFiles
  uploads,
  \* RetrainModel instance (child of FileUpload)
  learningRate, nEstimators, maxDepth, retrainLoading, result, retrainError,
  \* in-flight executions of RetrainModel.handleRetrain
  retrains,
  \* the table handed to a view as its data prop
  data,
  \* DataExploration: which copy of the component is built, its selected
  \* chart, its memoized stats and what the selected chart computed
  variant, selectedChart, stats, chart,
  \* ClassificationResults: its memoized dispositionCounts and filteredRows,
  \* and what it renders (summary cards and results table)
  dispositionCounts, filteredRows, resultsView,
  \* PlanetSystem3D: its memoized systemConfig and what it renders; lastSpeeds
  \* remembers the disposition and the speeds of the previous computation of
  \* systemConfig
  systemConfig, scene, lastSpeeds,
  \* DataPreview: its useState hooks and what it renders (the page of rows)
  currentPage, searchTerm, sortColumn, sortDirection, previewView

appVars == <<activeTab, previewData, classificationData, loading,
             selectedDisposition>>
uploadVars == <<dragActive, error, retrainOpen, uploads>>
hyperVars == <<learningRate, nEstimators, maxDepth>>
retrainVars == <<hyperVars, retrainLoading, result, retrainError, retrains>>
explorationVars == <<variant, selectedChart, stats, chart>>
resultsVars == <<dispositionCounts, filteredRows, resultsView>>
orbitVars == <<systemConfig, scene, lastSpeeds>>
pageVars == <<currentPage, searchTerm, sortColumn, sortDirection,
              previewView>>
viewVars == <<data, explorationVars, resultsVars, orbitVars, pageVars>>
vars == <<appVars, uploadVars, retrainVars, viewVars>>

----------------------------------------------------------------------------
\* Bounds
MaxFiles == 2
MaxUploads == 2
MaxRetrains == 2

Files == 1..MaxFiles
NoFile == 0
NoData == 0

TabType == {"upload", "preview", "classification", "visualization",
            "exploration"}
NoError == "null"
NoResult == "null"

UploadSlots == 1..MaxUploads
RetrainSlots == 1..MaxRetrains

IdleUpload == [pc |-> "idle", file |-> NoFile, mounted |-> FALSE,
               navigated |-> FALSE]
NoBody == "null"
IdleRetrain == [pc |-> "idle", mounted |-> FALSE, closed |-> FALSE,
                body |-> NoBody]

UploadPending(u) == u.pc \in {"preview", "classify"}
RetrainPending(r) == r.pc = "pending"

PendingUploads == {p \in UploadSlots : UploadPending(uploads[p])}
PendingRetrains == {r \in RetrainSlots : RetrainPending(retrains[r])}

FreeUploadSlot(p) ==
  /\ ~UploadPending(uploads[p])
  /\ \A q \in UploadSlots : q < p => UploadPending(uploads[q])
FreeRetrainSlot(r) ==
  /\ ~RetrainPending(retrains[r])
  /\ \A q \in RetrainSlots : q < r => RetrainPending(retrains[q])

----------------------------------------------------------------------------
\* JavaScript values

\* A cell of a row: a number, a string, null, or undefined (key absent)
CNum(v) == [k |-> "num", n |-> v, s |-> ""]
CStr(t) == [k |-> "str", n |-> 0, s |-> t]
CNull == [k |-> "null", n |-> 0, s |-> ""]
CUndef == [k |-> "undefined", n |-> 0, s |-> ""]

\* row[col]
Get(row, col) == IF col \in DOMAIN row THEN row[col] ELSE CUndef

\* a ?? b
Nullish(c) == c.k \in {"null", "undefined"}
Coalesce(a, b) == IF Nullish(a) THEN b ELSE a

\* truthiness of a cell, as in (a || b) and (a ? b : c)
Truthy(c) ==
  CASE c.k = "num" -> c.n # 0
    [] c.k = "str" -> c.s # ""
    [] OTHER -> FALSE

\* String(c)
StringOf(c) ==
  CASE c.k = "str" -> c.s
    [] c.k = "num" -> ToString(c.n)
    [] c.k = "null" -> "null"
    [] OTHER -> "undefined"

\* s.toUpperCase(), on the strings that occur as disposition tokens
ToUpperCase(s) ==
  CASE s = "Unknown" -> "UNKNOWN"
    [] s = "confirmed" -> "CONFIRMED"
    [] s = "candidate" -> "CANDIDATE"
    [] s = "false positive" -> "FALSE POSITIVE"
    [] s = "fp" -> "FP"
    [] s = "exploded" -> "EXPLODED"
    [] s = "null" -> "NULL"
    [] s = "undefined" -> "UNDEFINED"
    [] OTHER -> s

\* Numbers are NaN, an exact rational num/den in lowest terms with den > 0,
\* or an infinity (num = 1 or -1, den = 0).  Rounding of doubles is not
\* modelled, and zero carries no sign: x / 0 has the sign of x.
RECURSIVE GCD(_, _)
GCD(a, b) == IF b = 0 THEN a ELSE GCD(b, a % b)
Abs(x) == IF x < 0 THEN -x ELSE x
Sign(x) == IF x < 0 THEN -1 ELSE IF x = 0 THEN 0 ELSE 1
NaN == [nan |-> TRUE, num |-> 0, den |-> 1]
Infinity(sgn) == [nan |-> FALSE, num |-> sgn, den |-> 0]
Rat(n, d) ==
  LET g == GCD(Abs(n), Abs(d))
      sgn == IF d < 0 THEN -1 ELSE 1
  IN [nan |-> FALSE, num |-> sgn * (n \div g), den |-> sgn * (d \div g)]
\* n / d for integers, d = 0 included
Fraction(n, d) == IF d # 0 THEN Rat(n, d)
                  ELSE IF n = 0 THEN NaN ELSE Infinity(Sign(n))
Num(n) == [nan |-> FALSE, num |-> n, den |-> 1]
IsNaN(a) == a.nan
Plus(a, b) == IF a.nan \/ b.nan THEN NaN
              ELSE IF a.den = 0 /\ b.den = 0
                THEN (IF a.num = b.num THEN a ELSE NaN)
              ELSE Fraction(a.num * b.den + b.num * a.den, a.den * b.den)
Minus(a, b) == IF a.nan \/ b.nan THEN NaN
               ELSE IF a.den = 0 /\ b.den = 0
                 THEN (IF a.num # b.num THEN a ELSE NaN)
               ELSE Fraction(a.num * b.den - b.num * a.den, a.den * b.den)
Times(a, b) == IF a.nan \/ b.nan THEN NaN
               ELSE Fraction(a.num * b.num, a.den * b.den)
Divide(a, b) == IF a.nan \/ b.nan THEN NaN
                ELSE IF b.den = 0 THEN (IF a.den = 0 THEN NaN ELSE Num(0))
                ELSE IF b.num = 0 THEN Fraction(a.num, 0)
                ELSE IF a.den = 0 THEN Infinity(a.num * Sign(b.num))
                ELSE Rat(a.num * b.den, a.den * b.num)
\* a < b (false when either is NaN)
Less(a, b) == /\ ~a.nan
              /\ ~b.nan
              /\ IF a.den = 0 /\ b.den = 0 THEN a.num < b.num
                 ELSE a.num * b.den < b.num * a.den
MathFloor(a) == IF a.nan THEN NaN
                ELSE IF a.den = 0 THEN a ELSE Num(a.num \div a.den)
MathMin(a, b) == IF a.nan \/ b.nan THEN NaN ELSE IF Less(b, a) THEN b ELSE a
MathMax(a, b) == IF a.nan \/ b.nan THEN NaN ELSE IF Less(a, b) THEN b ELSE a
\* x || 1 on a number: 0 and NaN are falsy
OrOne(x) == IF x.nan \/ x.num = 0 THEN Num(1) ELSE x

\* Math.round(Math.sqrt(n)) for an integer n >= 1
RoundSqrt(n) ==
  CHOOSE r \in 0..n : (2 * r - 1) * (2 * r - 1) <= 4 * n
                      /\ 4 * n < (2 * r + 1) * (2 * r + 1)

\* parseFloat of a string, on the strings that occur in cells
ParseFloatString(t) ==
  CASE t = "2" -> Num(2)
    [] t = "0" -> Num(0)
    [] OTHER -> NaN

\* parseFloat(c): null and undefined are read as the strings "null" and
\* "undefined", which do not parse
ParseFloat(c) ==
  CASE c.k = "num" -> Num(c.n)
    [] c.k = "str" -> ParseFloatString(c.s)
    [] OTHER -> NaN

\* Number(c), the conversion applied by < and > (unless both operands are
\* strings) and by *; no string that occurs in these cells reads as a number
ToNumber(c) ==
  CASE c.k = "num" -> Num(c.n)
    [] c.k = "null" -> Num(0)
    [] c.k = "str" /\ c.s = "" -> Num(0)
    [] OTHER -> NaN

\* x.toFixed(digits): rounded to that many decimals
RECURSIVE Pad(_, _)
Pad(frac, digits) ==
  IF digits > 1 /\ frac < 10 ^ (digits - 1)
    THEN "0" \o Pad(frac, digits - 1)
    ELSE ToString(frac)
ToFixed(x, digits) ==
  IF x.nan THEN "NaN"
  ELSE IF x.den = 0 THEN (IF x.num > 0 THEN "Infinity" ELSE "-Infinity")
  ELSE LET scale == 10 ^ digits
           t == (2 * Abs(x.num) * scale + x.den) \div (2 * x.den)
       IN (IF x.num < 0 THEN "-" ELSE "")
            \o ToString(t \div scale)
            \o (IF digits = 0 THEN "" ELSE "." \o Pad(t % scale, digits))

\* arr.sort((a, b) => a - b) and sums (arr.filter is SelectSeq)
SortAscending(seq) == SortSeq(seq, LAMBDA a, b : Less(a, b))
RECURSIVE SumNum(_)
SumNum(seq) == IF seq = <<>> THEN Num(0) ELSE Plus(Head(seq), SumNum(Tail(seq)))
RECURSIVE SumInt(_, _)
SumInt(f, dom) ==
  IF dom = {} THEN 0
  ELSE LET x == CHOOSE x \in dom : TRUE IN f[x] + SumInt(f, dom \ {x})

\* The data prop: null, or an object whose rows / columns may be missing
NullData == [isNull |-> TRUE, hasRows |-> FALSE, hasColumns |-> FALSE,
             columns |-> <<>>, rows |-> <<>>]
Table(columns, rows) == [isNull |-> FALSE, hasRows |-> TRUE,
                         hasColumns |-> TRUE, columns |-> columns,
                         rows |-> rows]
WithoutRows(columns) == [isNull |-> FALSE, hasRows |-> FALSE,
                         hasColumns |-> TRUE, columns |-> columns,
                         rows |-> <<>>]
WithoutColumns(rows) == [isNull |-> FALSE, hasRows |-> TRUE,
                         hasColumns |-> FALSE, columns |-> <<>>,
                         rows |-> rows]

----------------------------------------------------------------------------
\* DataExploration

Range(seq) == {seq[k] : k \in DOMAIN seq}
Max(a, b) == IF a < b THEN b ELSE a

\* String(row.Predicted_Disposition || "Unknown").toUpperCase()
Disposition(row) ==
  LET pd == Get(row, "Predicted_Disposition")
  IN ToUpperCase(StringOf(IF Truthy(pd) THEN pd ELSE CStr("Unknown")))

\* data.rows.reduce(...): label -> number of rows carrying it
Dispositions(rows) ==
  [l \in {Disposition(rows[k]) : k \in DOMAIN rows} |->
     Cardinality({k \in DOMAIN rows : Disposition(rows[k]) = l})]

numericCols == {"koi_period", "pl_orbper", "koi_prad", "pl_rade",
                "koi_depth", "koi_teff", "st_teff", "pl_trandep"}

\* (mutation of ColumnValues: a cell that does not parse counts as 0)
ColumnValuesZeroFilled(rows, col) ==
  SortAscending([k \in DOMAIN rows |->
                   IF IsNaN(ParseFloat(Get(rows[k], col))) THEN Num(0)
                   ELSE ParseFloat(Get(rows[k], col))])

\* vals: the column parsed, NaN dropped, sorted ascending
ColumnValues(rows, col) ==
  SortAscending(SelectSeq([k \in DOMAIN rows |-> ParseFloat(Get(rows[k], col))],
                          LAMBDA v : ~IsNaN(v)))

\* the record stored in acc[col]; vals is not empty
ColumnSummary(vals) ==
  [min |-> vals[1],
   max |-> vals[Len(vals)],
   mean |-> Divide(SumNum(vals), Num(Len(vals))),
   median |-> vals[(Len(vals) \div 2) + 1],
   count |-> Len(vals)]

\* columns: a column without numeric values gets no entry
Columns(rows, cols) ==
  [col \in {c \in cols : ColumnValues(rows, c) # <<>>} |->
     ColumnSummary(ColumnValues(rows, col))]

\* stats (useMemo on data)
Stats(d) ==
  IF d.isNull \/ ~d.hasRows
    THEN [dispositions |-> <<>>, columns |-> <<>>, total |-> 0]
    ELSE [dispositions |-> Dispositions(d.rows),
          columns |-> Columns(d.rows, numericCols),
          total |-> Len(d.rows)]

\* Array(bins).fill(0) and the histogram[i]++ of the forEach: idx[k] is the
\* index computed for the k-th value.  An index that is no array index of
\* 0..bins-1 (NaN, or past the end) increments no bin; stray counts those.
CountBins(idx, bins) ==
  [histogram |-> [i \in 0..(bins - 1) |->
                    Cardinality({k \in DOMAIN idx : idx[k] = Num(i)})],
   stray |-> Cardinality({k \in DOMAIN idx :
                            \A i \in 0..(bins - 1) : idx[k] # Num(i)})]

NoHistogram == [empty |-> TRUE, periods |-> <<>>, bins |-> 0, min |-> NaN,
                max |-> NaN, width |-> NaN, histogram |-> <<>>, stray |-> 0]

\* periods (useMemo): parseFloat(r.period ?? ""), NaN and values <= 0
\* dropped, sorted ascending
Periods(d) ==
  IF d.isNull \/ ~d.hasRows THEN <<>>
  ELSE SortAscending(SelectSeq(
         [k \in DOMAIN d.rows |->
            ParseFloat(Coalesce(Get(d.rows[k], "period"), CStr("")))],
         LAMBDA v : ~IsNaN(v) /\ Less(Num(0), v)))

\* (mutation of BinIndex: the index is not clamped to the last bin)
BinIndexUnclamped(v, min, width, bins) ==
  MathFloor(Divide(Minus(v, min), width))

\* Math.min(bins - 1, Math.floor((v - min) / width))
BinIndex(v, min, width, bins) ==
  MathMin(Num(bins - 1), MathFloor(Divide(Minus(v, min), width)))

\* HistogramChart, current component: square-root rule, width falls back to 1
HistogramChart(d) ==
  LET periods == Periods(d) IN
  IF periods = <<>> THEN NoHistogram
  ELSE LET bins == Max(5, RoundSqrt(Len(periods)))
           min == periods[1]
           max == periods[Len(periods)]
           width == OrOne(Divide(Minus(max, min), Num(bins)))
           filled == CountBins([k \in DOMAIN periods |->
                                  BinIndex(periods[k], min, width, bins)], bins)
       IN [empty |-> FALSE, periods |-> periods, bins |-> bins, min |-> min,
           max |-> max, width |-> width, histogram |-> filled.histogram,
           stray |-> filled.stray]

\* HistogramChart, second copy in the same file: 25 bins, no fallback
BinIndex25(v, min, width, bins) ==
  MathMin(Num(bins - 1), MathFloor(Divide(Minus(v, min), width)))

HistogramChart25(d) ==
  LET periods == Periods(d) IN
  IF periods = <<>> THEN NoHistogram
  ELSE LET bins == 25
           min == periods[1]
           max == periods[Len(periods)]
           width == Divide(Minus(max, min), Num(bins))
           filled == CountBins([k \in DOMAIN periods |->
                                  BinIndex25(periods[k], min, width, bins)], bins)
       IN [empty |-> FALSE, periods |-> periods, bins |-> bins, min |-> min,
           max |-> max, width |-> width, histogram |-> filled.histogram,
           stray |-> filled.stray]

\* Older DataExploration: validPeriods from row.koi_period, 20 bins
ValidPeriods(d) ==
  IF d.isNull \/ ~d.hasRows THEN <<>>
  ELSE SortAscending(SelectSeq(
         [k \in DOMAIN d.rows |-> ParseFloat(Get(d.rows[k], "koi_period"))],
         LAMBDA v : ~IsNaN(v) /\ Less(Num(0), v)))

BinIndex20(period, min, binWidth, bins) ==
  MathMin(Num(bins - 1), MathFloor(Divide(Minus(period, min), binWidth)))

HistogramChart20(d) ==
  LET validPeriods == ValidPeriods(d) IN
  IF validPeriods = <<>> THEN NoHistogram
  ELSE LET bins == 20
           min == validPeriods[1]
           max == validPeriods[Len(validPeriods)]
           binWidth == Divide(Minus(max, min), Num(bins))
           filled == CountBins([k \in DOMAIN validPeriods |->
                       BinIndex20(validPeriods[k], min, binWidth, bins)], bins)
       IN [empty |-> FALSE, periods |-> validPeriods, bins |-> bins,
           min |-> min, max |-> max, width |-> binWidth,
           histogram |-> filled.histogram, stray |-> filled.stray]

\* Older DataExploration: stats.columnStats over three columns, labels kept
\* as written
numericColumns == {"koi_period", "koi_prad", "koi_slogg"}

DispositionLegacy(row) ==
  LET pd == Get(row, "Predicted_Disposition")
  IN IF Truthy(pd) THEN StringOf(pd) ELSE "Unknown"

DispositionsLegacy(rows) ==
  [l \in {DispositionLegacy(rows[k]) : k \in DOMAIN rows} |->
     Cardinality({k \in DOMAIN rows : DispositionLegacy(rows[k]) = l})]

StatsLegacy(d) ==
  IF d.isNull \/ ~d.hasRows
    THEN [dispositions |-> <<>>, columns |-> <<>>, total |-> 0]
    ELSE [dispositions |-> DispositionsLegacy(d.rows),
          columns |-> Columns(d.rows, numericColumns),
          total |-> Len(d.rows)]

\* a || b on cells
Or(a, b) == IF Truthy(a) THEN a ELSE b

\* Math.max(...values, start)
RECURSIVE MaxOf(_, _)
MaxOf(values, start) ==
  IF values = <<>> THEN start
  ELSE MaxOf(Tail(values), MathMax(start, Head(values)))

\* color(disp) of the current component: upper-cases its argument
Color(disp) ==
  LET d == ToUpperCase(disp) IN
  CASE d \in {"CP", "CONFIRMED"} -> "#10b981"
    [] d \in {"PC", "CANDIDATE"} -> "#facc15"
    [] d \in {"FP", "FALSE POSITIVE"} -> "#ef4444"
    [] OTHER -> "#94a3b8"

NoScatter == [points |-> <<>>, maxX |-> NaN, maxY |-> NaN]

\* ScatterPlot, current component: scatter (useMemo), maxX / maxY and the
\* cx / cy of each circle
ScatterPlot(d) ==
  LET rows == IF d.isNull \/ ~d.hasRows THEN <<>> ELSE d.rows
      mapped == [k \in DOMAIN rows |->
        [x |-> ParseFloat(Coalesce(Get(rows[k], "period"), CStr(""))),
         y |-> ParseFloat(Coalesce(Get(rows[k], "radius"),
                            Coalesce(Get(rows[k], "depth"), CStr("")))),
         disp |-> ToUpperCase(StringOf(
                    Coalesce(Get(rows[k], "Predicted_Disposition"),
                      Coalesce(Get(rows[k], "koi_disposition"),
                               CStr("UNKNOWN")))))]]
      scatter == SelectSeq(mapped, LAMBDA p : ~IsNaN(p.x) /\ ~IsNaN(p.y))
      maxX == MaxOf([k \in DOMAIN scatter |-> scatter[k].x], Num(1))
      maxY == MaxOf([k \in DOMAIN scatter |-> scatter[k].y], Num(1))
  IN [points |-> [k \in DOMAIN scatter |->
        [x |-> scatter[k].x, y |-> scatter[k].y,
         cx |-> Plus(Num(40), Times(Divide(scatter[k].x, maxX), Num(320))),
         cy |-> Minus(Num(210), Times(Divide(scatter[k].y, maxY), Num(180))),
         fill |-> Color(scatter[k].disp)]],
      maxX |-> maxX, maxY |-> maxY]

\* color(disp) of the second copy in the same file: no upper-casing
Color25(disp) ==
  CASE disp \in {"CP", "CONFIRMED"} -> "#10b981"
    [] disp \in {"PC", "CANDIDATE"} -> "#facc15"
    [] disp \in {"FP", "FALSE POSITIVE"} -> "#ef4444"
    [] OTHER -> "#94a3b8"

\* ScatterPlot, second copy in the same file
ScatterPlot25(d) ==
  LET rows == IF d.isNull \/ ~d.hasRows THEN <<>> ELSE d.rows
      mapped == [k \in DOMAIN rows |->
        [x |-> ParseFloat(Coalesce(Get(rows[k], "period"), CStr(""))),
         y |-> ParseFloat(Coalesce(Get(rows[k], "radius"),
                            Coalesce(Get(rows[k], "depth"), CStr("")))),
         disp |-> ToUpperCase(StringOf(
                    Coalesce(Get(rows[k], "Predicted_Disposition"),
                      Coalesce(Get(rows[k], "koi_disposition"),
                               CStr("UNKNOWN")))))]]
      scatter == SelectSeq(mapped, LAMBDA p : ~IsNaN(p.x) /\ ~IsNaN(p.y))
      maxX == MaxOf([k \in DOMAIN scatter |-> scatter[k].x], Num(1))
      maxY == MaxOf([k \in DOMAIN scatter |-> scatter[k].y], Num(1))
  IN [points |-> [k \in DOMAIN scatter |->
        [x |-> scatter[k].x, y |-> scatter[k].y,
         cx |-> Plus(Num(40), Times(Divide(scatter[k].x, maxX), Num(320))),
         cy |-> Minus(Num(210), Times(Divide(scatter[k].y, maxY), Num(180))),
         fill |-> Color25(scatter[k].disp)]],
      maxX |-> maxX, maxY |-> maxY]

\* the column headers "Period (days)" and "Radius (R(+))" of the older
\* component (the circled plus of the source is written (+) here)
PeriodHeader == "Period (days)"
RadiusHeader == "Radius (R(+))"

\* ScatterPlot, older DataExploration: scatterData (useMemo), maxX / maxY
\* (0 when there is no point) and the x / y of each circle
ScatterPlotLegacy(d) ==
  LET rows == IF d.isNull \/ ~d.hasRows THEN <<>> ELSE d.rows
      mapped == [k \in DOMAIN rows |->
        [x |-> ParseFloat(Or(Get(rows[k], "koi_period"),
                             Get(rows[k], PeriodHeader))),
         y |-> ParseFloat(Or(Get(rows[k], "koi_prad"),
                             Get(rows[k], RadiusHeader))),
         disposition |-> Or(Get(rows[k], "Predicted_Disposition"),
                            Get(rows[k], "Classification"))]]
      scatterData == SelectSeq(mapped, LAMBDA p : ~IsNaN(p.x) /\ ~IsNaN(p.y))
      maxX == IF Len(scatterData) > 0
                THEN MaxOf([k \in DOMAIN scatterData |-> scatterData[k].x],
                           Infinity(-1))
                ELSE Num(0)
      maxY == IF Len(scatterData) > 0
                THEN MaxOf([k \in DOMAIN scatterData |-> scatterData[k].y],
                           Infinity(-1))
                ELSE Num(0)
  IN [points |-> [k \in DOMAIN scatterData |->
        [x |-> scatterData[k].x, y |-> scatterData[k].y,
         cx |-> Plus(Num(40), Times(Divide(scatterData[k].x, maxX), Num(320))),
         cy |-> Minus(Num(210), Times(Divide(scatterData[k].y, maxY), Num(180))),
         fill |-> IF scatterData[k].disposition = CStr("CONFIRMED")
                    THEN "#10b981"
                  ELSE IF scatterData[k].disposition = CStr("CANDIDATE")
                    THEN "#f59e0b" ELSE "#ef4444"]],
      maxX |-> maxX, maxY |-> maxY]

\* The three copies of the component: the current one (square-root rule),
\* the second one in the same file (25 bins), the older one (20 bins)
Variants == {"sqrt", "fixed25", "fixed20"}
ChartTypes(v) == IF v = "fixed20" THEN {"scatter", "histogram"}
                 ELSE {"overview", "scatter", "histogram"}
InitialChart(v) == IF v = "fixed20" THEN "scatter" ELSE "overview"
StatsOf(v, d) == IF v = "fixed20" THEN StatsLegacy(d) ELSE Stats(d)

\* what the selected chart computes when it renders
RenderChart(v, type, d) ==
  [kind |-> type,
   hist |-> IF type # "histogram" THEN NoHistogram
            ELSE CASE v = "sqrt" -> HistogramChart(d)
                   [] v = "fixed25" -> HistogramChart25(d)
                   [] OTHER -> HistogramChart20(d),
   scatter |-> IF type # "scatter" THEN NoScatter
               ELSE CASE v = "sqrt" -> ScatterPlot(d)
                      [] v = "fixed25" -> ScatterPlot25(d)
                      [] OTHER -> ScatterPlotLegacy(d)]

\* onClick of a chart button: setSelectedChart(type)
SetSelectedChart(type) ==
  /\ activeTab = "exploration"
  /\ type \in ChartTypes(variant)
  /\ type # selectedChart
  /\ selectedChart' = type
  /\ chart' = RenderChart(variant, type, data)
  /\ UNCHANGED <<appVars, uploadVars, retrainVars, data, variant, stats,
                 resultsVars, orbitVars, pageVars>>

\* DataExploration is not mounted
ExplorationUnmounted ==
  /\ variant = "sqrt"
  /\ selectedChart = "overview"
  /\ stats = [dispositions |-> <<>>, columns |-> <<>>, total |-> 0]
  /\ chart = [kind |-> "none", hist |-> NoHistogram, scatter |-> NoScatter]

----------------------------------------------------------------------------
\* ClassificationResults

\* String(row.Predicted_Disposition || "").toUpperCase()
PredictedLabel(row) ==
  LET pd == Get(row, "Predicted_Disposition")
  IN ToUpperCase(StringOf(IF Truthy(pd) THEN pd ELSE CStr("")))

\* the keys of counts, which are also the summary cards
CountedLabels == {"CONFIRMED", "CANDIDATE", "FALSE POSITIVE"}

\* the guard in front of the hooks
NoResults(d) == d.isNull \/ ~d.hasRows \/ ~d.hasColumns

\* dispositionCounts (useMemo on data.rows): a row is counted only when its
\* label is a key of counts
DispositionCounts(rows) ==
  [l \in CountedLabels |->
     Cardinality({k \in DOMAIN rows : PredictedLabel(rows[k]) = l})]

\* filteredRows (useMemo on data.rows, selectedDisposition)
FilteredRows(rows, selected) ==
  SelectSeq(rows, LAMBDA r : PredictedLabel(r) = selected)

NoCounts == [l \in CountedLabels |-> 0]

\* the summary cards: count and percentage of each key of dispositionCounts
SummaryCards(counts, rows) ==
  [l \in DOMAIN counts |->
     [count |-> counts[l],
      percentage |-> ToFixed(Times(Divide(Num(counts[l]), Num(Len(rows))),
                                   Num(100)), 1)]]

\* the em dash shown for a missing value
Dash == "-"

\* c ? c.toFixed(digits) : dash; only a number has toFixed
FixedOrDash(c, digits) ==
  IF ~Truthy(c) THEN Dash ELSE ToFixed(Num(c.n), digits)

\* rendering the table row throws a TypeError: dispositionConfig has no
\* entry for the row's token as written, or a truthy cell is not a number
RowThrows(row) ==
  \/ StringOf(Get(row, "Predicted_Disposition")) \notin CountedLabels
  \/ \E col \in {"koi_period", "koi_prad", "koi_teff"} :
       Truthy(Get(row, col)) /\ Get(row, col).k # "num"

\* (row.Confidence ?? 0) * 100, the width of the confidence bar in percent
ConfidencePercent(row) ==
  Times(ToNumber(Coalesce(Get(row, "Confidence"), CNum(0))), Num(100))

\* the cells of the i-th row of the results table (i from 0)
TableRow(row, i) ==
  LET named == Coalesce(Get(row, "kepoi_name"), Get(row, "id"))
  IN [name |-> IF Nullish(named) THEN "Object-" \o ToString(i + 1)
               ELSE StringOf(named),
      period |-> FixedOrDash(Get(row, "koi_period"), 2),
      radius |-> FixedOrDash(Get(row, "koi_prad"), 2),
      teff |-> FixedOrDash(Get(row, "koi_teff"), 0),
      classification |-> StringOf(Get(row, "Predicted_Disposition")),
      width |-> ConfidencePercent(row),
      confidence |-> ToFixed(ConfidencePercent(row), 0)]

NoResultsView == [state |-> "none", cards |-> <<>>, table |-> <<>>]

\* what ClassificationResults renders: the "no results" notice, or the
\* summary cards and the first 20 filtered rows; an exception thrown while
\* rendering leaves nothing on the page
RenderResults(d, selected) ==
  IF NoResults(d) THEN [state |-> "empty", cards |-> <<>>, table |-> <<>>]
  ELSE LET filtered == FilteredRows(d.rows, selected)
           shown == SubSeq(filtered, 1,
                           IF Len(filtered) < 20 THEN Len(filtered) ELSE 20)
       IN IF \E k \in DOMAIN shown : RowThrows(shown[k])
            THEN [state |-> "crashed", cards |-> <<>>, table |-> <<>>]
            ELSE [state |-> "results",
                  cards |-> SummaryCards(DispositionCounts(d.rows), d.rows),
                  table |-> [k \in DOMAIN shown |-> TableRow(shown[k], k - 1)]]

ClassificationMounted(d, selected) ==
  /\ dispositionCounts = (IF NoResults(d) THEN NoCounts
                          ELSE DispositionCounts(d.rows))
  /\ filteredRows = (IF NoResults(d) THEN <<>>
                     ELSE FilteredRows(d.rows, selected))
  /\ resultsView = RenderResults(d, selected)

ClassificationUnmounted ==
  /\ dispositionCounts = NoCounts
  /\ filteredRows = <<>>
  /\ resultsView = NoResultsView

\* onClick of a summary card: setSelectedDisposition(disp)
SetSelectedDisposition(disp) ==
  /\ activeTab = "classification"
  /\ resultsView.state = "results"
  /\ disp \in DOMAIN dispositionCounts
  /\ disp # selectedDisposition
  /\ selectedDisposition' = disp
  /\ filteredRows' = FilteredRows(data.rows, disp)
  /\ resultsView' = RenderResults(data, disp)
  /\ UNCHANGED <<activeTab, previewData, classificationData, loading,
                 uploadVars, retrainVars, data, explorationVars,
                 dispositionCounts, orbitVars, pageVars>>

----------------------------------------------------------------------------
\* PlanetSystem3D

\* Bound: Math.random() is a generator whose state the program does not
\* control; a computation of systemConfig sees it in one of MaxSeed + 1
\* states, and the i-th call then returns Random(seed, i) in [0, 1)
MaxSeed == 1
Seeds == 0..MaxSeed
Random(seed, i) == Rat((seed + i) % (MaxSeed + 1), MaxSeed + 1)

\* Number(c) of a truthy cell
NumberOf(c) ==
  CASE c.k = "num" -> Num(c.n)
    [] c.k = "str" -> ParseFloatString(c.s)
    [] OTHER -> NaN

\* Math.pow(x, 0.3) to three decimals, on the periods that occur
Pow03(x) ==
  IF x.nan \/ x.num < 0 THEN NaN
  ELSE CASE x = Num(0) -> Num(0)
         [] x = Num(1) -> Num(1)
         [] x = Num(2) -> Rat(1231, 1000)
         [] x = Num(3) -> Rat(1390, 1000)
         [] x = Num(4) -> Rat(1516, 1000)
         [] x = Num(10) -> Rat(1995, 1000)

\* the planet config of the i-th filtered row (i from 0); seed is the state
\* of Math.random when systemConfig is computed
Planet(row, i, disposition, seed) ==
  LET prad == Coalesce(Get(row, "koi_prad"), Coalesce(Get(row, "pl_rade"), CNull))
      period == Coalesce(Get(row, "koi_period"),
                         Coalesce(Get(row, "pl_orbper"), CNull))
      named == Coalesce(Get(row, "kepoi_name"), Get(row, "id"))
  IN [orbitalRadius |->
        IF Truthy(period) THEN Plus(Rat(18, 10), Pow03(NumberOf(period)))
        ELSE Plus(Num(3), Times(Num(i), Rat(18, 10))),
      planetRadius |->
        IF Truthy(prad) THEN MathMax(Rat(8, 100), Times(NumberOf(prad), Rat(5, 100)))
        ELSE Rat(12, 100),
      color |-> IF disposition = "CONFIRMED" THEN "#3b82f6" ELSE "#8b5cf6",
      speed |-> Plus(Rat(25, 100), Times(Random(seed, i), Rat(7, 10))),
      name |-> IF Nullish(named) THEN "Planet-" \o ToString(i + 1)
               ELSE StringOf(named)]

\* (mutation of SystemConfig: the filtered rows are not cut to the first 8)
SystemConfigUncapped(d, disposition, seed) ==
  LET rows == IF d.isNull \/ ~d.hasRows THEN <<>> ELSE d.rows
      filtered == SelectSeq(rows, LAMBDA r : PredictedLabel(r) = disposition)
      planets == [k \in DOMAIN filtered |->
                    Planet(filtered[k], k - 1, disposition, seed)]
  IN [planets |-> planets,
      title |-> IF disposition = "CONFIRMED" THEN "Confirmed Planetary System"
                ELSE IF disposition = "CANDIDATE" THEN "Candidate Planet System"
                ELSE "No Planetary System Detected",
      detectedCount |-> Len(planets)]

\* systemConfig (useMemo on data, disposition)
SystemConfig(d, disposition, seed) ==
  LET rows == IF d.isNull \/ ~d.hasRows THEN <<>> ELSE d.rows
      filtered == SelectSeq(rows, LAMBDA r : PredictedLabel(r) = disposition)
      shown == SubSeq(filtered, 1, IF Len(filtered) < 8 THEN Len(filtered) ELSE 8)
      planets == [k \in DOMAIN shown |-> Planet(shown[k], k - 1, disposition, seed)]
  IN [planets |-> planets,
      title |-> IF disposition = "CONFIRMED" THEN "Confirmed Planetary System"
                ELSE IF disposition = "CANDIDATE" THEN "Candidate Planet System"
                ELSE "No Planetary System Detected",
      detectedCount |-> Len(planets)]

Speeds(config) == [k \in DOMAIN config.planets |-> config.planets[k].speed]

NoSystem == [planets |-> <<>>, title |-> "", detectedCount |-> 0]
NoSpeeds == [disposition |-> "", speeds |-> <<>>]
NoScene == [state |-> "none", message |-> "", bodies |-> <<>>]

\* (mutation of Scene: no separate panel for the false-positive label)
SceneWithoutPanel(d, disposition, config) ==
  IF d.isNull \/ ~d.hasRows
    THEN [state |-> "nodata",
          message |-> "No data available for visualization.",
          bodies |-> <<>>]
  ELSE [state |-> "system", message |-> config.title,
        bodies |-> config.planets]

\* what PlanetSystem3D renders: the "no data" notice, the false-positive
\* panel, or the canvas with one Planet per entry of systemConfig.planets
Scene(d, disposition, config) ==
  IF d.isNull \/ ~d.hasRows
    THEN [state |-> "nodata",
          message |-> "No data available for visualization.",
          bodies |-> <<>>]
  ELSE IF disposition = "FALSE POSITIVE"
    THEN [state |-> "falsepositive",
          message |-> "No planetary system visualization for false positives",
          bodies |-> <<>>]
  ELSE [state |-> "system", message |-> config.title,
        bodies |-> config.planets]

OrbitUnmounted ==
  /\ systemConfig = NoSystem
  /\ scene = NoScene
  /\ lastSpeeds = NoSpeeds

\* onClick of the "3D System" tab: App mounts PlanetSystem3D in place of
\* ClassificationResults, and systemConfig is computed
OpenVisualization ==
  /\ activeTab = "classification"
  /\ resultsView.state # "crashed"
  /\ activeTab' = "visualization"
  /\ \E seed \in Seeds :
       systemConfig' = SystemConfig(data, selectedDisposition, seed)
  /\ scene' = Scene(data, selectedDisposition, systemConfig')
  /\ dispositionCounts' = NoCounts
  /\ filteredRows' = <<>>
  /\ resultsView' = NoResultsView
  /\ UNCHANGED <<previewData, classificationData, loading,
                 selectedDisposition, uploadVars, retrainVars, data,
                 explorationVars, lastSpeeds, pageVars>>

\* onClick of the "Classification" tab: PlanetSystem3D is unmounted and its
\* memoized systemConfig is gone
OpenClassification ==
  /\ activeTab = "visualization"
  /\ activeTab' = "classification"
  /\ lastSpeeds' = [disposition |-> selectedDisposition,
                    speeds |-> Speeds(systemConfig)]
  /\ systemConfig' = NoSystem
  /\ scene' = NoScene
  /\ dispositionCounts' = (IF NoResults(data) THEN NoCounts
                           ELSE DispositionCounts(data.rows))
  /\ filteredRows' = (IF NoResults(data) THEN <<>>
                      ELSE FilteredRows(data.rows, selectedDisposition))
  /\ resultsView' = RenderResults(data, selectedDisposition)
  /\ UNCHANGED <<previewData, classificationData, loading,
                 selectedDisposition, uploadVars, retrainVars, data,
                 explorationVars, pageVars>>

----------------------------------------------------------------------------
\* DataPreview

rowsPerPage == 10

\* s.toLowerCase(), on the strings that occur in cells and search terms
ToLowerCase(s) ==
  CASE s = "K2" -> "k2"
    [] s = "K" -> "k"
    [] OTHER -> s

\* s.includes(t), on the lower-cased strings that occur
Includes(s, t) ==
  \/ t = ""
  \/ s = t
  \/ <<s, t>> \in {<<"k2", "k">>, <<"k2", "2">>}

\* Object.values(row).some(value => String(value).toLowerCase()
\*   .includes(searchTerm.toLowerCase()))
RowMatches(row, term) ==
  \E col \in DOMAIN row :
    Includes(ToLowerCase(StringOf(row[col])), ToLowerCase(term))

\* the order of UTF-16 code units, on the strings that occur in cells
StringRank(s) ==
  CASE s = "" -> 0
    [] s = "K2" -> 1
    [] s = "b" -> 2
    [] OTHER -> 3

\* aVal < bVal: two strings by code units, anything else as numbers
CellLess(a, b) ==
  IF a.k = "str" /\ b.k = "str" THEN StringRank(a.s) < StringRank(b.s)
  ELSE Less(ToNumber(a), ToNumber(b))

\* the comparator handed to filtered.sort
Compare(a, b, column, direction) ==
  LET aVal == Get(a, column)
      bVal == Get(b, column)
  IN IF CellLess(aVal, bVal) THEN (IF direction = "asc" THEN -1 ELSE 1)
     ELSE IF CellLess(bVal, aVal) THEN (IF direction = "asc" THEN 1 ELSE -1)
     ELSE 0

\* Array.prototype.sort is stable: x, which follows the rows of sorted in
\* the array, goes in front of the first row the comparator puts after it
InsertRow(sorted, x, column, direction) ==
  LET later == {k \in DOMAIN sorted :
                  Compare(sorted[k], x, column, direction) > 0}
      at == IF later = {} THEN Len(sorted) + 1
            ELSE CHOOSE k \in later : \A j \in later : k <= j
  IN SubSeq(sorted, 1, at - 1) \o <<x>> \o SubSeq(sorted, at, Len(sorted))

RECURSIVE StableSort(_, _, _)
StableSort(rows, column, direction) ==
  IF rows = <<>> THEN <<>>
  ELSE InsertRow(StableSort(SubSeq(rows, 1, Len(rows) - 1), column, direction),
                 rows[Len(rows)], column, direction)

NoColumn == "null"

\* (mutation of FilteredAndSortedRows: with an empty search term the rows
\* are not copied, and the sort reorders data.rows itself)
FilteredAndSortedRowsInPlace(rows, term, column, direction) ==
  LET filtered == SelectSeq(rows, LAMBDA r : RowMatches(r, term))
      sorted == IF column = NoColumn THEN filtered
                ELSE StableSort(filtered, column, direction)
  IN [filtered |-> sorted, rows |-> IF term = "" THEN sorted ELSE rows]

\* filteredAndSortedRows (useMemo on data.rows, searchTerm, sortColumn,
\* sortDirection): filter builds a new array and sort reorders that array;
\* rows is what data.rows holds afterwards
FilteredAndSortedRows(rows, term, column, direction) ==
  LET filtered == SelectSeq(rows, LAMBDA r : RowMatches(r, term))
      sorted == IF column = NoColumn THEN filtered
                ELSE StableSort(filtered, column, direction)
  IN [filtered |-> sorted, rows |-> rows]

\* Math.ceil(n / rowsPerPage)
TotalPages(n) == (n + rowsPerPage - 1) \div rowsPerPage

\* arr.slice(start, end)
Slice(arr, start, end) ==
  LET lo == IF start < Len(arr) THEN start ELSE Len(arr)
      hi == IF end < Len(arr) THEN end ELSE Len(arr)
  IN IF hi <= lo THEN <<>> ELSE SubSeq(arr, lo + 1, hi)

\* the text of a cell of the preview table
CellText(c) ==
  CASE c.k = "num" -> ToFixed(Num(c.n), 4)
    [] Nullish(c) -> Dash
    [] OTHER -> c.s

\* the guard in front of the hooks
NoPreview(d) == d.isNull \/ ~d.hasRows \/ ~d.hasColumns

NoPreviewView == [state |-> "none", total |-> 0, totalPages |-> 0,
                  currentRows |-> <<>>, cells |-> <<>>]

\* what DataPreview renders: the "no data" notice, or the current page of
\* the filtered and sorted rows with the page count
RenderPreview(d, page, term, column, direction) ==
  IF NoPreview(d)
    THEN [state |-> "empty", total |-> 0, totalPages |-> 0,
          currentRows |-> <<>>, cells |-> <<>>]
  ELSE LET all == FilteredAndSortedRows(d.rows, term, column, direction).filtered
           currentRows == Slice(all, page * rowsPerPage,
                                page * rowsPerPage + rowsPerPage)
       IN [state |-> "table", total |-> Len(all),
           totalPages |-> TotalPages(Len(all)),
           currentRows |-> currentRows,
           cells |-> [k \in DOMAIN currentRows |->
                        [col \in Range(d.columns) |->
                           CellText(Get(currentRows[k], col))]]]

\* data.rows after DataPreview rendered
RowsAfterPreview(d, term, column, direction) ==
  IF NoPreview(d) THEN d
  ELSE [d EXCEPT !.rows =
          FilteredAndSortedRows(d.rows, term, column, direction).rows]

\* DataPreview as it mounts: the initial values of its hooks
PreviewMounted(d) ==
  /\ currentPage = 0
  /\ searchTerm = ""
  /\ sortColumn = NoColumn
  /\ sortDirection = "asc"
  /\ previewView = RenderPreview(d, 0, "", NoColumn, "asc")

PreviewUnmounted ==
  /\ currentPage = 0
  /\ searchTerm = ""
  /\ sortColumn = NoColumn
  /\ sortDirection = "asc"
  /\ previewView = NoPreviewView

\* DataPreview renders again after one of its setters ran
Rerender(page, term, column, direction) ==
  /\ currentPage' = page
  /\ searchTerm' = term
  /\ sortColumn' = column
  /\ sortDirection' = direction
  /\ previewView' = RenderPreview(data, page, term, column, direction)
  /\ data' = RowsAfterPreview(data, term, column, direction)
  /\ UNCHANGED <<appVars, uploadVars, retrainVars, explorationVars,
                 resultsVars, orbitVars>>

\* (mutation of SetSearchTerm: the page is not reset)
SetSearchTermKeepsPage(value) ==
  /\ activeTab = "preview"
  /\ previewView.state = "table"
  /\ value # searchTerm
  /\ Rerender(currentPage, value, sortColumn, sortDirection)

\* onChange of the search box: setSearchTerm(value), setCurrentPage(0)
SetSearchTerm(value) ==
  /\ activeTab = "preview"
  /\ previewView.state = "table"
  /\ value # searchTerm
  /\ Rerender(0, value, sortColumn, sortDirection)

\* handleSort, the onClick of a column header
HandleSort(column) ==
  /\ activeTab = "preview"
  /\ previewView.state = "table"
  /\ column \in Range(data.columns)
  /\ IF sortColumn = column
       THEN Rerender(currentPage, searchTerm, sortColumn,
                     IF sortDirection = "asc" THEN "desc" ELSE "asc")
       ELSE Rerender(currentPage, searchTerm, column, "asc")

\* onClick of Previous, disabled on the first page
PreviousPage ==
  /\ activeTab = "preview"
  /\ previewView.state = "table"
  /\ currentPage # 0
  /\ Rerender(Max(0, currentPage - 1), searchTerm, sortColumn, sortDirection)

\* onClick of Next, disabled on the last page
NextPage ==
  /\ activeTab = "preview"
  /\ previewView.state = "table"
  /\ ~(currentPage >= previewView.totalPages - 1)
  /\ Rerender(IF previewView.totalPages - 1 < currentPage + 1
                THEN previewView.totalPages - 1 ELSE currentPage + 1,
              searchTerm, sortColumn, sortDirection)

----------------------------------------------------------------------------
\* App

\* no view is mounted
ViewsUnmounted ==
  /\ data = NullData
  /\ ExplorationUnmounted
  /\ ClassificationUnmounted
  /\ OrbitUnmounted
  /\ PreviewUnmounted

AppInit ==
  /\ activeTab = "upload"
  /\ previewData = NoData
  /\ classificationData = NoData
  /\ loading = FALSE
  /\ selectedDisposition = "CONFIRMED"

FileUploadInit ==
  /\ dragActive = FALSE
  /\ error = NoError
  /\ retrainOpen = FALSE
  /\ uploads = [p \in UploadSlots |-> IdleUpload]

RetrainModelInit ==
  /\ learningRate = Rat(5, 100)
  /\ nEstimators = Num(500)
  /\ maxDepth = Num(6)
  /\ retrainLoading = FALSE
  /\ result = NoResult
  /\ retrainError = NoError
  /\ retrains = [r \in RetrainSlots |-> IdleRetrain]

Init == AppInit /\ FileUploadInit /\ RetrainModelInit /\ ViewsUnmounted

\* The tab button is disabled unless it is the upload tab or some data exists
TabDisabled(tab) ==
  tab # "upload" /\ previewData = NoData /\ classificationData = NoData

\* Leaving the upload tab unmounts FileUpload and its RetrainModel child:
\* their hook state is dropped, and the executions of handleFiles and
\* handleRetrain they started keep running with setters that do nothing.
Orphaned(us) == [p \in UploadSlots |-> [us[p] EXCEPT !.mounted = FALSE]]
OrphanedRetrains == [r \in RetrainSlots |-> [retrains[r] EXCEPT !.mounted = FALSE]]

Unmount(us) ==
  /\ dragActive' = FALSE
  /\ error' = NoError
  /\ retrainOpen' = FALSE
  /\ uploads' = Orphaned(us)
  /\ learningRate' = Rat(5, 100)
  /\ nEstimators' = Num(500)
  /\ maxDepth' = Num(6)
  /\ retrainLoading' = FALSE
  /\ result' = NoResult
  /\ retrainError' = NoError
  /\ retrains' = OrphanedRetrains

\* setActiveTab(tab) as seen by the FileUpload subtree; us and err are the
\* values uploads and error take if FileUpload stays mounted
SwitchTo(tab, us, err) ==
  /\ activeTab' = tab
  /\ IF activeTab = "upload" /\ tab # "upload"
       THEN Unmount(us)
       ELSE /\ uploads' = us
            /\ error' = err
            /\ UNCHANGED <<dragActive, retrainOpen, retrainVars>>

Navigated(us) ==
  [p \in UploadSlots |->
     IF UploadPending(us[p]) THEN [us[p] EXCEPT !.navigated = TRUE] ELSE us[p]]

\* (mutation of ClickTab: the tab buttons are never disabled)
ClickTabNotDisabled(tab) ==
  /\ ~retrainOpen
  /\ tab # activeTab
  /\ SwitchTo(tab, Navigated(uploads), error)
  /\ UNCHANGED <<previewData, classificationData, loading, selectedDisposition>>
  /\ UNCHANGED viewVars

\* onClick of a tab button
ClickTab(tab) ==
  /\ ~retrainOpen
  /\ ~TabDisabled(tab)
  /\ tab # activeTab
  /\ SwitchTo(tab, Navigated(uploads), error)
  /\ UNCHANGED <<previewData, classificationData, loading, selectedDisposition>>
  /\ UNCHANGED viewVars

----------------------------------------------------------------------------
\* FileUpload

\* handleDrag: dragenter / dragover set the highlight, dragleave clears it
HandleDrag(type) ==
  /\ activeTab = "upload"
  /\ ~retrainOpen
  /\ dragActive' = (IF type \in {"dragenter", "dragover"} THEN TRUE
                    ELSE IF type = "dragleave" THEN FALSE ELSE dragActive)
  /\ dragActive' # dragActive
  /\ UNCHANGED <<appVars, error, retrainOpen, uploads, retrainVars>>
  /\ UNCHANGED viewVars

\* handleFiles up to its first await: the extension check, setError(null),
\* setLoading(true) and the preview request being issued.  okExt says
\* whether the file name ends in .csv / .xlsx / .xls.
HandleFiles(file, okExt) ==
  IF file = NoFile
    THEN UNCHANGED <<error, loading, uploads>>
    ELSE IF ~okExt
      THEN /\ error' = "Please upload a CSV or Excel file"
           /\ UNCHANGED <<loading, uploads>>
      ELSE /\ \E p \in UploadSlots :
                /\ FreeUploadSlot(p)
                /\ uploads' = [uploads EXCEPT ![p] =
                     [pc |-> "preview", file |-> file, mounted |-> TRUE,
                      navigated |-> FALSE]]
           /\ error' = NoError
           /\ loading' = TRUE

\* onDrop of the drop zone
HandleDrop(file, okExt) ==
  /\ activeTab = "upload"
  /\ ~retrainOpen
  /\ dragActive' = FALSE
  /\ IF file # NoFile THEN HandleFiles(file, okExt)
                      ELSE UNCHANGED <<error, loading, uploads>>
  /\ <<dragActive, error, loading, uploads>>' # <<dragActive, error, loading, uploads>>
  /\ UNCHANGED <<activeTab, previewData, classificationData,
                 selectedDisposition, retrainOpen, retrainVars>>
  /\ UNCHANGED viewVars

\* onChange of the hidden file input
HandleChange(file, okExt) ==
  /\ activeTab = "upload"
  /\ ~retrainOpen
  /\ file # NoFile
  /\ HandleFiles(file, okExt)
  /\ UNCHANGED <<activeTab, previewData, classificationData,
                 selectedDisposition, dragActive, retrainOpen, retrainVars>>
  /\ UNCHANGED viewVars

\* setError called by an execution of handleFiles: nothing happens once the
\* FileUpload that started it is unmounted
SetErrorFrom(u, msg) == IF u.mounted THEN msg ELSE error

\* The preview request of execution p settles.  ok: response.ok and the body
\* parsed; onUpload runs (setPreviewData, setActiveTab("preview")) and the
\* classification request is issued.  Otherwise: catch, then finally.
PreviewResponse(p, ok) ==
  /\ uploads[p].pc = "preview"
  /\ IF ok
       THEN /\ previewData' = uploads[p].file
            /\ SwitchTo("preview",
                        [uploads EXCEPT ![p].pc = "classify"], error)
            /\ UNCHANGED loading
       ELSE /\ uploads' = [uploads EXCEPT ![p] = IdleUpload]
            /\ error' = SetErrorFrom(uploads[p], "Preview upload failed")
            /\ loading' = FALSE
            /\ UNCHANGED <<activeTab, previewData, dragActive, retrainOpen,
                           retrainVars>>
  /\ UNCHANGED <<classificationData, selectedDisposition>>
  /\ UNCHANGED viewVars

\* (mutation of ClassifyResponse: onClassify stores the table and leaves
\* the tab as it is)
ClassifyResponseNoSwitch(p, ok) ==
  /\ uploads[p].pc = "classify"
  /\ IF ok
       THEN /\ classificationData' = uploads[p].file
            /\ uploads' = [uploads EXCEPT ![p] = IdleUpload]
            /\ UNCHANGED <<activeTab, error, dragActive, retrainOpen,
                           retrainVars>>
       ELSE /\ uploads' = [uploads EXCEPT ![p] = IdleUpload]
            /\ error' = SetErrorFrom(uploads[p], "Classification failed")
            /\ UNCHANGED <<activeTab, classificationData, dragActive,
                           retrainOpen, retrainVars>>
  /\ loading' = FALSE
  /\ UNCHANGED <<previewData, selectedDisposition>>
  /\ UNCHANGED viewVars

\* The classification request of execution p settles.  ok: onClassify runs
\* (setClassificationData, setActiveTab("classification")); otherwise catch.
\* finally: setLoading(false).
ClassifyResponse(p, ok) ==
  /\ uploads[p].pc = "classify"
  /\ IF ok
       THEN /\ classificationData' = uploads[p].file
            /\ SwitchTo("classification",
                        [uploads EXCEPT ![p] = IdleUpload], error)
       ELSE /\ uploads' = [uploads EXCEPT ![p] = IdleUpload]
            /\ error' = SetErrorFrom(uploads[p], "Classification failed")
            /\ UNCHANGED <<activeTab, classificationData, dragActive,
                           retrainOpen, retrainVars>>
  /\ loading' = FALSE
  /\ UNCHANGED <<previewData, selectedDisposition>>
  /\ UNCHANGED viewVars

\* onClick of the "Retrain Model" button
OpenRetrain ==
  /\ activeTab = "upload"
  /\ ~retrainOpen
  /\ retrainOpen' = TRUE
  /\ UNCHANGED <<appVars, dragActive, error, uploads, retrainVars>>
  /\ UNCHANGED viewVars

----------------------------------------------------------------------------
\* RetrainModel

\* onClose of the dialog (Cancel, Escape, click outside the panel)
CloseRetrain ==
  /\ retrainOpen
  /\ retrainOpen' = FALSE
  /\ retrains' = [r \in RetrainSlots |->
       IF RetrainPending(retrains[r]) THEN [retrains[r] EXCEPT !.closed = TRUE]
       ELSE retrains[r]]
  /\ UNCHANGED <<appVars, dragActive, error, uploads, hyperVars,
                 retrainLoading, result, retrainError>>
  /\ UNCHANGED viewVars

\* parseInt of the text of a number input, on the texts that are typed
ParseInt(text) ==
  CASE text = "0" -> Num(0)
    [] text = "6" -> Num(6)
    [] text = "500" -> Num(500)
    [] text = "100000" -> Num(100000)
    [] OTHER -> NaN

\* onChange of the learning-rate slider: setLearningRate(parseFloat(value));
\* the slider yields a value between its min and max
SetLearningRate(value) ==
  /\ retrainOpen
  /\ learningRate' = value
  /\ learningRate' # learningRate
  /\ UNCHANGED <<appVars, uploadVars, nEstimators, maxDepth, retrainLoading,
                 result, retrainError, retrains>>
  /\ UNCHANGED viewVars

\* onChange of the n_estimators input: setNEstimators(parseInt(value))
SetNEstimators(text) ==
  /\ retrainOpen
  /\ nEstimators' = ParseInt(text)
  /\ nEstimators' # nEstimators
  /\ UNCHANGED <<appVars, uploadVars, learningRate, maxDepth, retrainLoading,
                 result, retrainError, retrains>>
  /\ UNCHANGED viewVars

\* onChange of the max_depth input: setMaxDepth(parseInt(value))
SetMaxDepth(text) ==
  /\ retrainOpen
  /\ maxDepth' = ParseInt(text)
  /\ maxDepth' # maxDepth
  /\ UNCHANGED <<appVars, uploadVars, learningRate, nEstimators,
                 retrainLoading, result, retrainError, retrains>>
  /\ UNCHANGED viewVars

\* JSON.stringify of a number: NaN and the infinities are written as null
JsonNumber(x) ==
  IF x.nan \/ x.den = 0 THEN [null |-> TRUE, num |-> 0, den |-> 1]
  ELSE [null |-> FALSE, num |-> x.num, den |-> x.den]

\* the body of the POST to /retrain
RequestBody(rate, estimators, depth) ==
  [learning_rate |-> JsonNumber(rate),
   n_estimators |-> JsonNumber(estimators),
   max_depth |-> JsonNumber(depth),
   threshold |-> JsonNumber(Rat(6, 10))]

\* how a retrain request fails: a response whose ok is false, with its
\* statusText, or a rejected fetch / json(), with the message of the error
RetrainFailures ==
  {[kind |-> "status", text |-> "Internal Server Error"],
   [kind |-> "status", text |-> ""],
   [kind |-> "transport", text |-> "Failed to fetch"],
   [kind |-> "transport", text |-> ""]}

\* err.message || "Retrain failed"
FailureMessage(failure) ==
  LET message == IF failure.kind = "status"
                   THEN "Retrain failed: " \o failure.text
                   ELSE failure.text
  IN IF message = "" THEN "Retrain failed" ELSE message

\* (mutation of HandleRetrain: the Start Retrain button is not disabled
\* while loading)
HandleRetrainNotDisabled ==
  /\ retrainOpen
  /\ \E r \in RetrainSlots :
       /\ FreeRetrainSlot(r)
       /\ retrains' = [retrains EXCEPT ![r] =
            [pc |-> "pending", mounted |-> TRUE, closed |-> FALSE,
             body |-> RequestBody(learningRate, nEstimators, maxDepth)]]
  /\ retrainLoading' = TRUE
  /\ retrainError' = NoError
  /\ result' = NoResult
  /\ UNCHANGED <<appVars, dragActive, error, retrainOpen, uploads, hyperVars>>
  /\ UNCHANGED viewVars

\* handleRetrain up to its await; the Start Retrain button is disabled
\* while loading
HandleRetrain ==
  /\ retrainOpen
  /\ ~retrainLoading
  /\ \E r \in RetrainSlots :
       /\ FreeRetrainSlot(r)
       /\ retrains' = [retrains EXCEPT ![r] =
            [pc |-> "pending", mounted |-> TRUE, closed |-> FALSE,
             body |-> RequestBody(learningRate, nEstimators, maxDepth)]]
  /\ retrainLoading' = TRUE
  /\ retrainError' = NoError
  /\ result' = NoResult
  /\ UNCHANGED <<appVars, dragActive, error, retrainOpen, uploads, hyperVars>>
  /\ UNCHANGED viewVars

\* (mutation of RetrainResponse: setLoading(false) follows setResult in the
\* try block instead of standing in finally)
RetrainResponseNoFinally(r, ok) ==
  /\ retrains[r].pc = "pending"
  /\ retrains' = [retrains EXCEPT ![r] = IdleRetrain]
  /\ IF retrains[r].mounted
       THEN /\ result' = (IF ok THEN "retrained" ELSE result)
            /\ IF ok THEN retrainError' = retrainError
                 ELSE \E failure \in RetrainFailures :
                        retrainError' = FailureMessage(failure)
            /\ retrainLoading' = (IF ok THEN FALSE ELSE retrainLoading)
       ELSE UNCHANGED <<retrainLoading, result, retrainError>>
  /\ UNCHANGED <<appVars, dragActive, error, retrainOpen, uploads, hyperVars>>
  /\ UNCHANGED viewVars

\* The retrain request of execution r settles: setResult(data) or
\* setError(message), then setLoading(false); no effect once unmounted
RetrainResponse(r, ok) ==
  /\ retrains[r].pc = "pending"
  /\ retrains' = [retrains EXCEPT ![r] = IdleRetrain]
  /\ IF retrains[r].mounted
       THEN /\ result' = (IF ok THEN "retrained" ELSE result)
            /\ IF ok THEN retrainError' = retrainError
                 ELSE \E failure \in RetrainFailures :
                        retrainError' = FailureMessage(failure)
            /\ retrainLoading' = FALSE
       ELSE UNCHANGED <<retrainLoading, result, retrainError>>
  /\ UNCHANGED <<appVars, dragActive, error, retrainOpen, uploads, hyperVars>>
  /\ UNCHANGED viewVars

----------------------------------------------------------------------------
Next ==
  \/ \E tab \in TabType : ClickTab(tab)
  \/ \E type \in {"dragenter", "dragover", "dragleave"} : HandleDrag(type)
  \/ \E f \in Files \cup {NoFile}, okExt \in BOOLEAN : HandleDrop(f, okExt)
  \/ \E f \in Files, okExt \in BOOLEAN : HandleChange(f, okExt)
  \/ \E p \in UploadSlots, ok \in BOOLEAN : PreviewResponse(p, ok)
  \/ \E p \in UploadSlots, ok \in BOOLEAN : ClassifyResponse(p, ok)
  \/ OpenRetrain
  \/ CloseRetrain
  \/ HandleRetrain
  \/ \E r \in RetrainSlots, ok \in BOOLEAN : RetrainResponse(r, ok)

Spec == Init /\ [][Next]_vars

\* The same program driven by a user who submits a file only when no upload
\* of theirs is pending (the drop zone itself never refuses a file)
SerialDrop(file, okExt) == PendingUploads = {} /\ HandleDrop(file, okExt)
SerialChange(file, okExt) == PendingUploads = {} /\ HandleChange(file, okExt)

NextSerial ==
  \/ \E tab \in TabType : ClickTab(tab)
  \/ \E type \in {"dragenter", "dragover", "dragleave"} : HandleDrag(type)
  \/ \E f \in Files \cup {NoFile}, okExt \in BOOLEAN : SerialDrop(f, okExt)
  \/ \E f \in Files, okExt \in BOOLEAN : SerialChange(f, okExt)
  \/ \E p \in UploadSlots, ok \in BOOLEAN : PreviewResponse(p, ok)
  \/ \E p \in UploadSlots, ok \in BOOLEAN : ClassifyResponse(p, ok)
  \/ OpenRetrain
  \/ CloseRetrain
  \/ HandleRetrain
  \/ \E r \in RetrainSlots, ok \in BOOLEAN : RetrainResponse(r, ok)

SpecSerial == Init /\ [][NextSerial]_vars

----------------------------------------------------------------------------
\* App with the summary cards of ClassificationResults: the cards are the
\* keys of dispositionCounts, and a click hands the key to App's
\* setSelectedDisposition

\* onClick of a summary card, as App sees it
SelectDisposition(disp) ==
  /\ activeTab = "classification"
  /\ classificationData # NoData
  /\ disp \in CountedLabels
  /\ disp # selectedDisposition
  /\ selectedDisposition' = disp
  /\ UNCHANGED <<activeTab, previewData, classificationData, loading,
                 uploadVars, retrainVars>>
  /\ UNCHANGED viewVars

NextShell ==
  \/ NextSerial
  \/ \E disp \in CountedLabels : SelectDisposition(disp)

SpecShell == Init /\ [][NextShell]_vars

----------------------------------------------------------------------------
\* The serial App under the assumption that every request that was issued
\* is settled in the end: its response arrives or its promise rejects

SpecSettling ==
  /\ Init
  /\ [][NextSerial]_vars
  /\ WF_vars(\E p \in UploadSlots, ok \in BOOLEAN : PreviewResponse(p, ok))
  /\ WF_vars(\E p \in UploadSlots, ok \in BOOLEAN : ClassifyResponse(p, ok))

----------------------------------------------------------------------------
\* The retrain dialog on its own: the user stays on the upload tab, opens
\* and closes the dialog, edits the hyperparameters and starts retrains

LearningRates == {Rat(1, 100), Rat(5, 100), Rat(30, 100)}
EstimatorTexts == {"", "0", "500", "100000"}
DepthTexts == {"", "0", "6"}

RetrainNext ==
  \/ OpenRetrain
  \/ CloseRetrain
  \/ \E value \in LearningRates : SetLearningRate(value)
  \/ \E text \in EstimatorTexts : SetNEstimators(text)
  \/ \E text \in DepthTexts : SetMaxDepth(text)
  \/ HandleRetrain
  \/ \E r \in RetrainSlots, ok \in BOOLEAN : RetrainResponse(r, ok)

SpecRetrain == Init /\ [][RetrainNext]_vars

----------------------------------------------------------------------------
\* DataExploration on its own: App shows the exploration tab with a
\* classified table, and the user switches between the charts

\* Bounds: rows of a base table, copies of it in a long table
MaxRows == 3
LongCopies == 12

PeriodCells == {CNull, CStr("abc"), CStr("2")}
                 \cup {CNum(v) : v \in {-1, 0, 1, 4, 10}}
PeriodColumns == {<<"period">>, <<"koi_period", "period">>}

RECURSIVE Repeat(_, _)
Repeat(seq, n) == IF n = 0 THEN <<>> ELSE seq \o Repeat(seq, n - 1)

RECURSIVE SeqsUpTo(_, _)
SeqsUpTo(S, n) ==
  IF n = 0 THEN {<<>>}
  ELSE LET shorter == SeqsUpTo(S, n - 1)
       IN shorter \cup {Append(q, x) : q \in shorter, x \in S}

\* every row carries the same cell under each of the table's columns
PeriodRows(cols, cells) ==
  [k \in DOMAIN cells |-> [c \in Range(cols) |-> cells[k]]]

ExplorationTables ==
  {Table(cols, Repeat(PeriodRows(cols, cells), n)) :
     cols \in PeriodColumns, cells \in SeqsUpTo(PeriodCells, MaxRows),
     n \in {1, LongCopies}}
    \cup {NullData, WithoutRows(<<"period">>)}

ExplorationInit ==
  /\ activeTab = "exploration"
  /\ previewData = 1
  /\ classificationData = 1
  /\ loading = FALSE
  /\ selectedDisposition = "CONFIRMED"
  /\ FileUploadInit
  /\ RetrainModelInit
  /\ data \in ExplorationTables
  /\ variant \in Variants
  /\ selectedChart = InitialChart(variant)
  /\ stats = StatsOf(variant, data)
  /\ chart = RenderChart(variant, selectedChart, data)
  /\ ClassificationUnmounted
  /\ OrbitUnmounted
  /\ PreviewUnmounted

ExplorationNext == \E type \in {"overview", "scatter", "histogram"} :
                     SetSelectedChart(type)

SpecExploration == ExplorationInit /\ [][ExplorationNext]_vars

----------------------------------------------------------------------------
\* The scatter plot of DataExploration: tables whose rows carry an x cell
\* and a y cell, under the column names of a catalog export or under the
\* display headers

\* Bound: rows of a scatter table
MaxPoints == 2

ScatterCells == {CNull, CNum(-1), CNum(0), CNum(4), CStr("0")}
ScatterLayouts == {"catalog", "headers"}

ScatterColumns(layout) ==
  IF layout = "catalog"
    THEN <<"period", "koi_period", "radius", "koi_prad",
           "Predicted_Disposition">>
    ELSE <<"period", PeriodHeader, "depth", RadiusHeader, "koi_disposition",
           "Classification">>

ScatterRow(layout, xc, yc) ==
  IF layout = "catalog"
    THEN [period |-> xc, koi_period |-> xc, radius |-> yc, koi_prad |-> yc,
          Predicted_Disposition |-> CStr("CONFIRMED")]
    ELSE ("period" :> xc) @@ (PeriodHeader :> xc) @@ ("depth" :> yc)
           @@ (RadiusHeader :> yc) @@ ("koi_disposition" :> CStr("fp"))
           @@ ("Classification" :> CStr("fp"))

ScatterTables ==
  {Table(ScatterColumns(layout),
         [k \in DOMAIN cells |-> ScatterRow(layout, cells[k][1], cells[k][2])]) :
     layout \in ScatterLayouts,
     cells \in SeqsUpTo(ScatterCells \X ScatterCells, MaxPoints)}
    \cup {NullData, WithoutRows(ScatterColumns("catalog"))}

ScatterInit ==
  /\ activeTab = "exploration"
  /\ previewData = 1
  /\ classificationData = 1
  /\ loading = FALSE
  /\ selectedDisposition = "CONFIRMED"
  /\ FileUploadInit
  /\ RetrainModelInit
  /\ data \in ScatterTables
  /\ variant \in Variants
  /\ selectedChart = InitialChart(variant)
  /\ stats = StatsOf(variant, data)
  /\ chart = RenderChart(variant, selectedChart, data)
  /\ ClassificationUnmounted
  /\ OrbitUnmounted
  /\ PreviewUnmounted

ScatterNext == \E type \in {"overview", "scatter", "histogram"} :
                 SetSelectedChart(type)

SpecScatter == ScatterInit /\ [][ScatterNext]_vars

----------------------------------------------------------------------------
\* ClassificationResults on its own: App shows the classification tab and
\* the user selects labels on the summary cards

DispositionTokens ==
  {CUndef, CNull, CStr("")}
    \cup {CStr(t) : t \in {"CONFIRMED", "confirmed", "CANDIDATE",
                           "FALSE POSITIVE", "FP", "exploded"}}

ClassifiedTables ==
  {Table(<<"Predicted_Disposition">>,
         [k \in DOMAIN tokens |-> [Predicted_Disposition |-> tokens[k]]]) :
     tokens \in SeqsUpTo(DispositionTokens, MaxRows)}
    \cup {NullData, WithoutRows(<<"Predicted_Disposition">>),
          WithoutColumns(<<>>)}

ClassificationInit ==
  /\ activeTab = "classification"
  /\ previewData = 1
  /\ classificationData = 1
  /\ loading = FALSE
  /\ selectedDisposition = "CONFIRMED"
  /\ FileUploadInit
  /\ RetrainModelInit
  /\ data \in ClassifiedTables
  /\ ExplorationUnmounted
  /\ ClassificationMounted(data, selectedDisposition)
  /\ OrbitUnmounted
  /\ PreviewUnmounted

ClassificationNext ==
  \E disp \in CountedLabels : SetSelectedDisposition(disp)

SpecClassification == ClassificationInit /\ [][ClassificationNext]_vars

----------------------------------------------------------------------------
\* DataExploration over classified tables: the label distribution of stats

LabelsInit ==
  /\ activeTab = "exploration"
  /\ previewData = 1
  /\ classificationData = 1
  /\ loading = FALSE
  /\ selectedDisposition = "CONFIRMED"
  /\ FileUploadInit
  /\ RetrainModelInit
  /\ data \in ClassifiedTables
  /\ variant \in Variants
  /\ selectedChart = InitialChart(variant)
  /\ stats = StatsOf(variant, data)
  /\ chart = RenderChart(variant, selectedChart, data)
  /\ ClassificationUnmounted
  /\ OrbitUnmounted
  /\ PreviewUnmounted

LabelsNext == \E type \in {"overview", "scatter", "histogram"} :
                SetSelectedChart(type)

SpecLabels == LabelsInit /\ [][LabelsNext]_vars

----------------------------------------------------------------------------
\* ClassificationResults over tables whose rows carry a confidence

\* Bound: rows of a table with confidences
MaxConfidenceRows == 2

ConfidenceCells == {CUndef, CNull, CNum(0), CNum(1), CNum(2), CNum(-1)}

ConfidenceTables ==
  {Table(<<"Predicted_Disposition", "Confidence">>, rows) :
     rows \in SeqsUpTo({[Predicted_Disposition |-> CStr(label),
                          Confidence |-> c] :
                           label \in {"CONFIRMED", "CANDIDATE"},
                           c \in ConfidenceCells}, MaxConfidenceRows)}

ConfidenceInit ==
  /\ activeTab = "classification"
  /\ previewData = 1
  /\ classificationData = 1
  /\ loading = FALSE
  /\ selectedDisposition = "CONFIRMED"
  /\ FileUploadInit
  /\ RetrainModelInit
  /\ data \in ConfidenceTables
  /\ ExplorationUnmounted
  /\ ClassificationMounted(data, selectedDisposition)
  /\ OrbitUnmounted
  /\ PreviewUnmounted

ConfidenceNext ==
  \E disp \in CountedLabels : SetSelectedDisposition(disp)

SpecConfidence == ConfidenceInit /\ [][ConfidenceNext]_vars

----------------------------------------------------------------------------
\* PlanetSystem3D: the user goes back and forth between the classification
\* tab, where the label is selected, and the 3D System tab

OrbitRows ==
  {[Predicted_Disposition |-> CStr(t), koi_period |-> CUndef,
    koi_prad |-> CUndef] : t \in {"CONFIRMED", "candidate", "FALSE POSITIVE"}}
    \cup {[Predicted_Disposition |-> CStr("CONFIRMED"),
           koi_period |-> CNum(4), koi_prad |-> CNum(2)]}

OrbitTables ==
  {Table(<<"Predicted_Disposition", "koi_period", "koi_prad">>, rows) :
     rows \in SeqsUpTo(OrbitRows, MaxRows)}

OrbitInit ==
  /\ activeTab = "classification"
  /\ previewData = 1
  /\ classificationData = 1
  /\ loading = FALSE
  /\ selectedDisposition = "CONFIRMED"
  /\ FileUploadInit
  /\ RetrainModelInit
  /\ data \in OrbitTables
  /\ ExplorationUnmounted
  /\ ClassificationMounted(data, selectedDisposition)
  /\ OrbitUnmounted
  /\ PreviewUnmounted

OrbitNext ==
  \/ \E disp \in CountedLabels : SetSelectedDisposition(disp)
  \/ OpenVisualization
  \/ OpenClassification

SpecOrbit == OrbitInit /\ [][OrbitNext]_vars

----------------------------------------------------------------------------
\* The orbital projection over catalog tables: rows carry a label, a period
\* and a radius under the Kepler names (koi_period, koi_prad) or under the
\* archive names (pl_orbper, pl_rade), and their position as id

\* Bounds: rows of a base table, copies of it in a long table
MaxBase == 2
ProjectionCopies == 9

ProjectionLabels == {"CONFIRMED", "FALSE POSITIVE"}

\* the period and radius cells of a row: nothing (koi_prad null), zeros,
\* Kepler names, archive names (next to a null koi_prad)
Measures ==
  {[koi_period |-> CUndef, pl_orbper |-> CUndef,
    koi_prad |-> CNull, pl_rade |-> CUndef],
   [koi_period |-> CNum(0), pl_orbper |-> CUndef,
    koi_prad |-> CNum(0), pl_rade |-> CUndef],
   [koi_period |-> CNum(4), pl_orbper |-> CUndef,
    koi_prad |-> CNum(2), pl_rade |-> CUndef],
   [koi_period |-> CUndef, pl_orbper |-> CNum(4),
    koi_prad |-> CNull, pl_rade |-> CNum(2)]}

ProjectionRow(label, m, k) ==
  [Predicted_Disposition |-> CStr(label), id |-> CNum(k),
   koi_period |-> m.koi_period, pl_orbper |-> m.pl_orbper,
   koi_prad |-> m.koi_prad, pl_rade |-> m.pl_rade]

ProjectionColumns ==
  <<"id", "koi_period", "pl_orbper", "koi_prad", "pl_rade",
    "Predicted_Disposition">>

ProjectionTables ==
  {LET long == Repeat(base, n)
   IN Table(ProjectionColumns,
            [k \in DOMAIN long |-> ProjectionRow(long[k][1], long[k][2], k)]) :
     base \in SeqsUpTo(ProjectionLabels \X Measures, MaxBase),
     n \in {1, ProjectionCopies}}
    \cup {WithoutRows(ProjectionColumns)}

\* App keeps selectedDisposition when a new classification arrives, so the
\* table is shown with any of the labels selected
ProjectionInit ==
  /\ activeTab = "classification"
  /\ previewData = 1
  /\ classificationData = 1
  /\ loading = FALSE
  /\ selectedDisposition \in CountedLabels
  /\ FileUploadInit
  /\ RetrainModelInit
  /\ data \in ProjectionTables
  /\ ExplorationUnmounted
  /\ ClassificationMounted(data, selectedDisposition)
  /\ OrbitUnmounted
  /\ PreviewUnmounted

ProjectionNext ==
  \/ \E disp \in CountedLabels : SetSelectedDisposition(disp)
  \/ OpenVisualization
  \/ OpenClassification

SpecProjection == ProjectionInit /\ [][ProjectionNext]_vars

----------------------------------------------------------------------------
\* The four views behind the tab buttons: App renders the view of the
\* active tab and hands it the table; every click on another tab unmounts
\* the view shown and mounts the other with fresh hooks

ViewTabs == {"preview", "classification", "visualization", "exploration"}

\* onClick of a tab button while a view is shown
ShowView(tab) ==
  /\ activeTab \in ViewTabs
  /\ tab \in ViewTabs
  /\ tab # activeTab
  /\ resultsView.state # "crashed"
  /\ activeTab' = tab
  /\ currentPage' = 0
  /\ searchTerm' = ""
  /\ sortColumn' = NoColumn
  /\ sortDirection' = "asc"
  /\ previewView' = (IF tab = "preview"
                       THEN RenderPreview(data, 0, "", NoColumn, "asc")
                       ELSE NoPreviewView)
  /\ data' = (IF tab = "preview"
                THEN RowsAfterPreview(data, "", NoColumn, "asc") ELSE data)
  /\ dispositionCounts' = (IF tab # "classification" \/ NoResults(data)
                             THEN NoCounts ELSE DispositionCounts(data.rows))
  /\ filteredRows' = (IF tab # "classification" \/ NoResults(data) THEN <<>>
                      ELSE FilteredRows(data.rows, selectedDisposition))
  /\ resultsView' = (IF tab = "classification"
                       THEN RenderResults(data, selectedDisposition)
                       ELSE NoResultsView)
  /\ IF tab = "visualization"
       THEN /\ \E seed \in Seeds :
                 systemConfig' = SystemConfig(data, selectedDisposition, seed)
            /\ scene' = Scene(data, selectedDisposition, systemConfig')
       ELSE /\ systemConfig' = NoSystem
            /\ scene' = NoScene
  /\ lastSpeeds' = (IF activeTab = "visualization"
                      THEN [disposition |-> selectedDisposition,
                            speeds |-> Speeds(systemConfig)]
                      ELSE lastSpeeds)
  /\ selectedChart' = InitialChart(variant)
  /\ stats' = (IF tab = "exploration" THEN StatsOf(variant, data)
               ELSE [dispositions |-> <<>>, columns |-> <<>>, total |-> 0])
  /\ chart' = (IF tab = "exploration"
                 THEN RenderChart(variant, InitialChart(variant), data)
                 ELSE [kind |-> "none", hist |-> NoHistogram,
                       scatter |-> NoScatter])
  /\ UNCHANGED <<previewData, classificationData, loading,
                 selectedDisposition, uploadVars, retrainVars, variant>>

\* Bound: rows of a table of the views
MaxViewRows == 2

ViewColumns == <<"id", "koi_period", "Predicted_Disposition">>

ViewRows ==
  {[id |-> CStr(name), koi_period |-> period,
    Predicted_Disposition |-> CStr(label)] :
     name \in {"K2", "b"}, period \in {CNum(2), CNum(10)},
     label \in {"CONFIRMED"}}
    \cup {[id |-> CStr("b"), koi_period |-> CNull,
           Predicted_Disposition |-> CStr("CANDIDATE")]}

ViewTables ==
  {Table(ViewColumns, rows) : rows \in SeqsUpTo(ViewRows, MaxViewRows)}
    \cup {Table(ViewColumns, Repeat(<<row>>, rowsPerPage + 1)) :
            row \in ViewRows}
    \cup {NullData, WithoutRows(ViewColumns)}
    \cup {WithoutColumns(rows) : rows \in SeqsUpTo(ViewRows, 1)}

SearchTerms == {"", "2", "K"}

ViewsInit ==
  /\ activeTab = "preview"
  /\ previewData = 1
  /\ classificationData = 1
  /\ loading = FALSE
  /\ selectedDisposition = "CONFIRMED"
  /\ FileUploadInit
  /\ RetrainModelInit
  /\ data \in ViewTables
  /\ ExplorationUnmounted
  /\ ClassificationUnmounted
  /\ OrbitUnmounted
  /\ PreviewMounted(data)

ViewsNext ==
  \/ \E tab \in ViewTabs : ShowView(tab)
  \/ \E value \in SearchTerms : SetSearchTerm(value)
  \/ \E column \in Range(ViewColumns) : HandleSort(column)
  \/ PreviousPage
  \/ NextPage
  \/ \E disp \in CountedLabels : SetSelectedDisposition(disp)
  \/ \E type \in {"overview", "scatter", "histogram"} : SetSelectedChart(type)

SpecViews == ViewsInit /\ [][ViewsNext]_vars

----------------------------------------------------------------------------
\* DataPreview on its own: App shows the preview tab with a table of up to
\* several pages, and the user searches, sorts and pages

\* Bounds: rows of a base table, copies of it in a table of several pages
MaxPageRows == 2
PageCopies == 11

PageRows ==
  {[id |-> CStr("K2"), koi_period |-> CNum(10),
    Predicted_Disposition |-> CStr("CONFIRMED")],
   [id |-> CStr("b"), koi_period |-> CNum(2),
    Predicted_Disposition |-> CStr("CONFIRMED")],
   [id |-> CStr("b"), koi_period |-> CNull,
    Predicted_Disposition |-> CStr("CANDIDATE")]}

PageTables ==
  {Table(ViewColumns, Repeat(rows, n)) :
     rows \in SeqsUpTo(PageRows, MaxPageRows), n \in {1, PageCopies}}

PreviewInit ==
  /\ activeTab = "preview"
  /\ previewData = 1
  /\ classificationData = 1
  /\ loading = FALSE
  /\ selectedDisposition = "CONFIRMED"
  /\ FileUploadInit
  /\ RetrainModelInit
  /\ data \in PageTables
  /\ ExplorationUnmounted
  /\ ClassificationUnmounted
  /\ OrbitUnmounted
  /\ PreviewMounted(data)

PreviewNext ==
  \/ \E value \in SearchTerms : SetSearchTerm(value)
  \/ \E column \in Range(ViewColumns) : HandleSort(column)
  \/ PreviousPage
  \/ NextPage

SpecPreview == PreviewInit /\ [][PreviewNext]_vars

----------------------------------------------------------------------------
\* C2: at most one execution of handleFiles is in flight at any time
AtMostOneUploadInFlight == Cardinality(PendingUploads) <= 1

\* C3: once no upload is pending, the preview and the classification held by
\* App are those of one and the same file
SnapshotFromOneFile ==
  (PendingUploads = {} /\ previewData # NoData /\ classificationData # NoData)
    => previewData = classificationData

\* C4: a response that arrives after the user switched tab (upload) or
\* closed the dialog (retrain) while it was pending changes nothing
PendingResponseDiscarded ==
  [][ /\ \A p \in UploadSlots :
           (/\ UploadPending(uploads[p])
            /\ uploads[p].navigated
            /\ uploads'[p].pc # uploads[p].pc)
             => UNCHANGED <<previewData, classificationData, activeTab>>
      /\ \A r \in RetrainSlots :
           (/\ RetrainPending(retrains[r])
            /\ retrains[r].closed
            /\ ~RetrainPending(retrains'[r]))
             => UNCHANGED <<result, retrainError>> ]_vars

\* C5: the busy indicator is on exactly while some request is pending
LoadingIffPending == loading <=> (PendingUploads # {})

----------------------------------------------------------------------------
HistogramShown == chart.kind = "histogram" /\ ~chart.hist.empty
BinTotal(h) == SumInt(h.histogram, DOMAIN h.histogram)
SameCellsInBothColumns == data.columns = <<"koi_period", "period">>

\* C7: the bin counts of the histogram add up to the count that the column
\* summary reports for the same column values (here the table carries the
\* same cells as koi_period, which stats summarises, and as period, which
\* the histogram reads)
HistogramTotalIsSummaryCount ==
  (variant = "sqrt" /\ chart.kind = "histogram" /\ SameCellsInBothColumns)
    => BinTotal(chart.hist) =
         (IF "koi_period" \in DOMAIN stats.columns
            THEN stats.columns["koi_period"].count ELSE 0)

\* C8: when all values of the histogram column are equal, every copy of the
\* histogram puts all of them in bin 0, nothing in the other bins, and loses
\* no value to a NaN index
DegenerateRangeInBinZero ==
  (HistogramShown /\ chart.hist.min = chart.hist.max)
    => /\ chart.hist.histogram[0] = Len(chart.hist.periods)
       /\ \A i \in 1..(chart.hist.bins - 1) : chart.hist.histogram[i] = 0
       /\ chart.hist.stray = 0

\* the bin the design assigns to v: min(bins-1, floor((v-min)/width)) with
\* width = (max-min)/bins, and bin 0 when max = min
DesignBin(h, v) ==
  IF h.max = h.min THEN 0
  ELSE LET q == Divide(Times(Minus(v, h.min), Num(h.bins)), Minus(h.max, h.min))
           f == q.num \div q.den
       IN IF f < h.bins - 1 THEN f ELSE h.bins - 1

\* C9: in the current histogram every counted value is counted in the bin
\* min(bins-1, floor((v-min)/width)), which lies in 0..bins-1; the minimum
\* is counted in bin 0 and, when max > min, the maximum in the last bin
ValuesCountedInDesignBin ==
  (variant = "sqrt" /\ HistogramShown)
    => LET h == chart.hist IN
       /\ DOMAIN h.histogram = 0..(h.bins - 1)
       /\ \A b \in 0..(h.bins - 1) :
            h.histogram[b] =
              Cardinality({k \in DOMAIN h.periods : DesignBin(h, h.periods[k]) = b})
       /\ h.stray = 0
       /\ h.histogram[0] >= 1
       /\ (h.max # h.min => h.histogram[h.bins - 1] >= 1)

\* C9 witness: the square-root rule gives more than 5 bins, max > min and a
\* value is counted in an inner bin
InnerBinFilled ==
  /\ variant = "sqrt"
  /\ HistogramShown
  /\ chart.hist.bins > 5
  /\ chart.hist.max # chart.hist.min
  /\ \E b \in 1..(chart.hist.bins - 2) : chart.hist.histogram[b] > 0

\* cells that hold a number (as a number or as a numeric string), and the
\* number they hold
IsNumericCell(c) == c.k = "num" \/ (c.k = "str" /\ c.s = "2")
CellNumber(c) == IF c.k = "num" THEN c.n ELSE 2
RECURSIVE CellTotal(_, _, _)
CellTotal(rows, col, ks) ==
  IF ks = {} THEN 0
  ELSE LET k == CHOOSE k \in ks : TRUE
       IN CellNumber(Get(rows[k], col)) + CellTotal(rows, col, ks \ {k})

\* C10: a column with n >= 1 numeric cells is summarised by its smallest
\* value, its largest value, its arithmetic mean, the element at index
\* floor(n/2) of the ascending order, and count n; cells that are not
\* numeric are left out (a column without numeric cells has no summary)
ColumnSummaryCorrect ==
  (~data.isNull /\ data.hasRows) =>
    \A col \in DOMAIN stats.columns \cup {"koi_period"} :
      LET rows == data.rows
          ks == {k \in DOMAIN rows : IsNumericCell(Get(rows[k], col))}
          n == Cardinality(ks)
          val(k) == CellNumber(Get(rows[k], col))
      IN IF n = 0 THEN col \notin DOMAIN stats.columns
         ELSE /\ col \in DOMAIN stats.columns
              /\ LET st == stats.columns[col]
                     med == st.median.num
                 IN /\ st.count = n
                    /\ \E k \in ks : st.min = Num(val(k))
                    /\ \A k \in ks : ~Less(Num(val(k)), st.min)
                    /\ \E k \in ks : st.max = Num(val(k))
                    /\ \A k \in ks : ~Less(st.max, Num(val(k)))
                    /\ Times(st.mean, Num(n)) = Num(CellTotal(rows, col, ks))
                    /\ st.median.den = 1 /\ ~st.median.nan
                    /\ Cardinality({k \in ks : val(k) < med}) <= n \div 2
                    /\ n \div 2 < Cardinality({k \in ks : val(k) <= med})

\* C10 witness: an even number of numeric values next to a non-numeric
\* cell; the median is the upper middle value, not the average of the two
EvenCountSummary ==
  /\ ~data.isNull /\ data.hasRows
  /\ "koi_period" \in DOMAIN stats.columns
  /\ \E k \in DOMAIN data.rows : ~IsNumericCell(Get(data.rows[k], "koi_period"))
  /\ stats.columns["koi_period"].count = 2
  /\ stats.columns["koi_period"].min = Num(1)
  /\ stats.columns["koi_period"].max = Num(4)
  /\ stats.columns["koi_period"].median = Num(4)
  /\ selectedChart # InitialChart(variant)

----------------------------------------------------------------------------
\* C1: the per-label counts of the classification summary add up to the
\* number of rows of the table
CountsSumToRows ==
  (activeTab = "classification" /\ ~NoResults(data))
    => SumInt(dispositionCounts, DOMAIN dispositionCounts) = Len(data.rows)

\* C6: computing the projection again for the same rows and the same label
\* (after leaving the 3D System tab, with or without changing the label and
\* changing it back) gives every body the same angular speed as before
SpeedsReproducible ==
  (activeTab = "visualization" /\ lastSpeeds.disposition = selectedDisposition)
    => Speeds(systemConfig) = lastSpeeds.speeds

----------------------------------------------------------------------------
\* the normalized coordinates of a plotted point: the offsets of its circle
\* from the plot origin (40, 210)
NormalizedX(p) == Minus(p.cx, Num(40))
NormalizedY(p) == Minus(Num(210), p.cy)
Within(v, lo, hi) == ~IsNaN(v) /\ ~Less(v, Num(lo)) /\ ~Less(Num(hi), v)

\* C11: every point of the current scatter plot has normalized coordinates
\* 0 <= x <= 320 (plot width) and 0 <= y <= 180 (plot height), whatever
\* numbers, negative ones included, the x and y columns hold
ScatterWithinPlot ==
  (variant = "sqrt" /\ chart.kind = "scatter")
    => \A k \in DOMAIN chart.scatter.points :
         /\ Within(NormalizedX(chart.scatter.points[k]), 0, 320)
         /\ Within(NormalizedY(chart.scatter.points[k]), 0, 180)

\* C12: in every copy of the scatter plot, when all plotted x values are 0
\* the x denominator is 1 and every point has normalized x = 0 (not NaN),
\* and likewise for y
ZeroAxisPlottedAtZero ==
  (chart.kind = "scatter" /\ chart.scatter.points # <<>>)
    => LET pts == chart.scatter.points IN
       /\ (\A k \in DOMAIN pts : pts[k].x = Num(0))
            => /\ chart.scatter.maxX = Num(1)
               /\ \A k \in DOMAIN pts : NormalizedX(pts[k]) = Num(0)
       /\ (\A k \in DOMAIN pts : pts[k].y = Num(0))
            => /\ chart.scatter.maxY = Num(1)
               /\ \A k \in DOMAIN pts : NormalizedY(pts[k]) = Num(0)

----------------------------------------------------------------------------
\* the canonical label of a raw token: case-insensitive, CP / PC / FP are
\* abbreviations, anything else (null, empty, unrecognized) is UNKNOWN; the
\* false-positive label is spelled "FALSE POSITIVE" as the code spells it
CanonicalLabel(c) ==
  LET t == IF c.k = "str" THEN ToUpperCase(c.s) ELSE "" IN
  CASE t \in {"CP", "CONFIRMED"} -> "CONFIRMED"
    [] t \in {"PC", "CANDIDATE"} -> "CANDIDATE"
    [] t \in {"FP", "FALSE POSITIVE"} -> "FALSE POSITIVE"
    [] OTHER -> "UNKNOWN"
FourLabels == {"CONFIRMED", "CANDIDATE", "FALSE POSITIVE", "UNKNOWN"}
RowsLabelled(rows, l) ==
  {k \in DOMAIN rows :
     CanonicalLabel(Get(rows[k], "Predicted_Disposition")) = l}

CountOf(l) == IF l \in DOMAIN dispositionCounts THEN dispositionCounts[l] ELSE 0

\* C13: counting and label filtering treat a token as its canonical label:
\* the count of each of the four labels is the number of rows whose token
\* canonicalizes to it (FP with FALSE POSITIVE, an unrecognized token with
\* UNKNOWN), and the rows selected for a label are the rows whose token
\* canonicalizes to it (stated for tables in which every row carries a
\* non-empty string token)
CountsFollowCanonicalLabel ==
  (/\ activeTab = "classification"
   /\ ~NoResults(data)
   /\ \A k \in DOMAIN data.rows :
        LET c == Get(data.rows[k], "Predicted_Disposition")
        IN c.k = "str" /\ c.s # "")
    => /\ \A l \in FourLabels :
            CountOf(l) = Cardinality(RowsLabelled(data.rows, l))
       /\ filteredRows =
            SelectSeq(data.rows,
                      LAMBDA r : CanonicalLabel(Get(r, "Predicted_Disposition"))
                                   = selectedDisposition)

\* C14: every label key produced by aggregation (the keys of
\* dispositionCounts, and the keys of stats.dispositions of the current
\* DataExploration) is one of the four labels
LabelKeysAmongFour ==
  /\ DOMAIN dispositionCounts \subseteq FourLabels
  /\ variant = "sqrt" => DOMAIN stats.dispositions \subseteq FourLabels

----------------------------------------------------------------------------
\* count / total as a percentage with one decimal: the text of the t in
\* 0..1000 nearest to 1000 * count / total
PercentText(count, total) ==
  LET t == CHOOSE t \in 0..1000 :
             (2 * t - 1) * total <= 2000 * count
               /\ 2000 * count < (2 * t + 1) * total
  IN ToString(t \div 10) \o "." \o ToString(t % 10)

\* C15: the percentage shown on each summary card is count(label) / total
\* rows, and it is 0 for every label when the table has no rows (never NaN)
PercentageDefined ==
  resultsView.state = "results"
    => \A l \in DOMAIN resultsView.cards :
         resultsView.cards[l].percentage =
           (IF Len(data.rows) = 0 THEN "0.0"
            ELSE PercentText(resultsView.cards[l].count, Len(data.rows)))

----------------------------------------------------------------------------
\* the canonical period and radius of a row: the first present of
\* koi_period, pl_orbper and of koi_prad, pl_rade
CanonicalPeriod(row) == Coalesce(Get(row, "koi_period"), Get(row, "pl_orbper"))
CanonicalRadius(row) == Coalesce(Get(row, "koi_prad"), Get(row, "pl_rade"))

\* the row a projected body was made from (rows carry their position as id,
\* which becomes the body's name)
BodyRow(b) == data.rows[CHOOSE k \in DOMAIN data.rows : ToString(k) = b.name]

\* C16: of two projected rows with periods present and periodA < periodB
\* (a period of 0 included), A is not given the larger orbital radius
OrbitalRadiusMonotone ==
  activeTab = "visualization"
    => \A i, j \in DOMAIN systemConfig.planets :
         LET pA == CanonicalPeriod(BodyRow(systemConfig.planets[i]))
             pB == CanonicalPeriod(BodyRow(systemConfig.planets[j]))
         IN (pA.k = "num" /\ pB.k = "num" /\ pA.n < pB.n)
              => /\ ~IsNaN(systemConfig.planets[i].orbitalRadius)
                 /\ ~IsNaN(systemConfig.planets[j].orbitalRadius)
                 /\ ~Less(systemConfig.planets[j].orbitalRadius,
                          systemConfig.planets[i].orbitalRadius)

\* C17: the body radius is 0.12 exactly when the row has no radius under
\* either name, and max(0.08, radius * 0.05) for a present radius, 0
\* included; so it is never below 0.08
BodyRadiusRule ==
  activeTab = "visualization"
    => \A i \in DOMAIN systemConfig.planets :
         LET r == CanonicalRadius(BodyRow(systemConfig.planets[i]))
             scaled == Rat(r.n * 5, 100)
         IN /\ systemConfig.planets[i].planetRadius =
                 (IF Nullish(r) THEN Rat(12, 100)
                  ELSE IF Less(scaled, Rat(8, 100)) THEN Rat(8, 100)
                  ELSE scaled)
            /\ ~Less(systemConfig.planets[i].planetRadius, Rat(8, 100))

\* the positions in the table of the rows carrying the selected label, in
\* table order
Matching ==
  SelectSeq([k \in DOMAIN data.rows |-> k],
            LAMBDA k : CanonicalLabel(Get(data.rows[k], "Predicted_Disposition"))
                         = selectedDisposition)

\* C18: the projection has min(8, k) bodies for k rows carrying the selected
\* label, body i is made from the i-th such row in table order, and the
\* rows filtered for the results table are those rows in table order
ProjectionTakesFirstEight ==
  LET pos == Matching IN
  /\ activeTab = "visualization" /\ data.hasRows
       => /\ Len(systemConfig.planets) = (IF Len(pos) < 8 THEN Len(pos) ELSE 8)
          /\ systemConfig.detectedCount = Len(systemConfig.planets)
          /\ \A i \in DOMAIN systemConfig.planets :
               systemConfig.planets[i].name = ToString(pos[i])
  /\ activeTab = "classification" /\ resultsView.state = "results"
       => /\ Len(filteredRows) = Len(pos)
          /\ \A i \in DOMAIN filteredRows : filteredRows[i] = data.rows[pos[i]]

\* C18 witness: more than 8 rows carry the selected label, other rows lie
\* between them, and 8 bodies are projected
EightOfManyProjected ==
  /\ activeTab = "visualization"
  /\ selectedDisposition = "CONFIRMED"
  /\ Len(Matching) > 8
  /\ Matching[1] # 1
  /\ Len(systemConfig.planets) = 8
  /\ systemConfig.planets[8].name = "16"

\* C19: with the false-positive label selected the visualization draws no
\* body, whatever the number of rows carrying the label, and shows the
\* false-positive panel (the "no data" notice when the data has no rows)
FalsePositiveShowsNoSystem ==
  (activeTab = "visualization" /\ selectedDisposition = "FALSE POSITIVE")
    => /\ scene.bodies = <<>>
       /\ scene.state = (IF data.hasRows THEN "falsepositive" ELSE "nodata")

\* C19 witness: several rows carry the false-positive label, systemConfig
\* holds planets for them, and the panel is shown instead
FalsePositivesNotDrawn ==
  /\ activeTab = "visualization"
  /\ selectedDisposition = "FALSE POSITIVE"
  /\ Len(systemConfig.planets) >= 2
  /\ scene.state = "falsepositive"
  /\ scene.bodies = <<>>

\* C20: rows with the same canonical period (radius) show the same period
\* (radius) in every consumer, under whichever name the value is carried:
\* the same cell in the results table, the same orbital radius (body
\* radius) in the projection
AliasResolvedEverywhere ==
  /\ resultsView.state = "results"
       => \A i, j \in DOMAIN resultsView.table :
            /\ CanonicalPeriod(filteredRows[i]) = CanonicalPeriod(filteredRows[j])
                 => resultsView.table[i].period = resultsView.table[j].period
            /\ CanonicalRadius(filteredRows[i]) = CanonicalRadius(filteredRows[j])
                 => resultsView.table[i].radius = resultsView.table[j].radius
  /\ activeTab = "visualization"
       => \A i, j \in DOMAIN systemConfig.planets :
            LET A == BodyRow(systemConfig.planets[i])
                B == BodyRow(systemConfig.planets[j])
            IN /\ (CanonicalPeriod(A) = CanonicalPeriod(B)
                     /\ Truthy(CanonicalPeriod(A)))
                    => systemConfig.planets[i].orbitalRadius =
                         systemConfig.planets[j].orbitalRadius
               /\ CanonicalRadius(A) = CanonicalRadius(B)
                    => systemConfig.planets[i].planetRadius =
                         systemConfig.planets[j].planetRadius

\* C21: a table that is null, or lacks its rows or its columns, makes the
\* view that is shown render its empty state and nothing derived from the
\* table: no page of rows, no cards, no bodies, no statistics or chart marks
Malformed(d) == d.isNull \/ ~d.hasRows \/ ~d.hasColumns
MalformedRendersEmpty ==
  Malformed(data) =>
    /\ activeTab = "preview" => previewView.state = "empty"
    /\ activeTab = "classification" => resultsView.state = "empty"
    /\ activeTab = "visualization" =>
         scene.state = "nodata" /\ scene.bodies = <<>>
    /\ activeTab = "exploration" =>
         /\ stats = [dispositions |-> <<>>, columns |-> <<>>, total |-> 0]
         /\ chart.scatter.points = <<>>
         /\ chart.hist = NoHistogram

\* C22: every row of the results table shows a confidence between 0% and
\* 100%: 0% for a row without a confidence, the nearer end of the range for
\* a confidence below 0 or above 1
ConfidenceWithinRange ==
  \A k \in DOMAIN resultsView.table :
    LET shown == resultsView.table[k]
        c == Get(filteredRows[k], "Confidence")
    IN /\ Within(shown.width, 0, 100)
       /\ Nullish(c) => shown.confidence = "0"
       /\ c.k = "num" /\ c.n > 1 => shown.confidence = "100"
       /\ c.k = "num" /\ c.n < 0 => shown.confidence = "0"

\* C23: a configuration outside the declared bounds (learning rate outside
\* (0, 1], n_estimators or max_depth not a positive integer, such as the
\* NaN of an emptied input) is rejected: no request to the retrain service
\* carries it, and the error shown names the field
PositiveInteger(x) == ~x.null /\ x.den = 1 /\ x.num > 0
ValidBody(b) ==
  /\ ~b.learning_rate.null
  /\ b.learning_rate.num > 0
  /\ b.learning_rate.num <= b.learning_rate.den
  /\ PositiveInteger(b.n_estimators)
  /\ PositiveInteger(b.max_depth)
InvalidConfigurationRejected ==
  \A r \in RetrainSlots :
    RetrainPending(retrains[r]) => ValidBody(retrains[r].body)

\* C24: whatever the user does with the dialog (open, close, edit, Start
\* Retrain) and whenever the responses arrive, at most one retrain request
\* is in flight, and no request starts while loading is true
OneRetrainInFlight ==
  /\ [](Cardinality(PendingRetrains) <= 1)
  /\ [][retrainLoading => PendingRetrains' \subseteq PendingRetrains]_vars

\* C24 (witness): a request is in flight, loading is shown, and the dialog
\* was closed and opened again in the meantime
RetrainInFlightDialogReopened ==
  /\ retrainOpen
  /\ retrainLoading
  /\ \E r \in RetrainSlots : RetrainPending(retrains[r]) /\ retrains[r].closed

\* C25: when the request of a retrain fails, the error shown carries the
\* status text of the response (or the message of the transport error),
\* loading is false again so that Start Retrain can be clicked, result is
\* still null, and the tables of App, the selected label and the chosen
\* hyperparameters are what they were; a request that succeeds sets the
\* result and no error
RetrainFailureRecoverable ==
  [][\A r \in RetrainSlots :
       (RetrainPending(retrains[r]) /\ ~RetrainPending(retrains'[r])) =>
         /\ retrainLoading' = FALSE
         /\ UNCHANGED <<previewData, classificationData, selectedDisposition,
                        learningRate, nEstimators, maxDepth>>
         /\ \/ result' = "retrained" /\ retrainError' = NoError
            \/ /\ result' = NoResult
               /\ \E f \in RetrainFailures :
                    retrainError' =
                      (IF f.kind = "status" THEN "Retrain failed: " \o f.text
                       ELSE IF f.text = "" THEN "Retrain failed" ELSE f.text)
    ]_vars

\* C25 (witness): a retrain with an edited configuration has failed with a
\* server status, and the dialog is ready for another attempt
RetrainFailureShown ==
  /\ retrainError = "Retrain failed: Internal Server Error"
  /\ ~retrainLoading
  /\ result = NoResult
  /\ PendingRetrains = {}
  /\ nEstimators # Num(500)

\* C26: searching, sorting, paging, selecting a label, switching the chart
\* or the tab leave the table as it is, rows and their order included, and
\* leave App holding the same tables
TableImmutable ==
  [][data' = data /\ UNCHANGED <<previewData, classificationData>>]_vars

\* C26 (witness): the preview shows all the rows of the table in another
\* order than the table holds them
SortedCopyShown ==
  /\ activeTab = "preview"
  /\ previewView.state = "table"
  /\ sortColumn # NoColumn
  /\ searchTerm = ""
  /\ Len(previewView.currentRows) = Len(data.rows)
  /\ previewView.currentRows # data.rows

\* C28: whatever the user searches, sorts and pages in DataPreview, the
\* page number stays between 0 and the last page, max(0, totalPages - 1)
\* with totalPages the number of matching rows divided by 10 and rounded
\* up, the page shows at most 10 rows, and an edit of the search box puts
\* the preview on page 0
MatchingRows ==
  Cardinality({k \in DOMAIN data.rows : RowMatches(data.rows[k], searchTerm)})
PageWithinBounds ==
  /\ [](previewView.state = "table" =>
          /\ previewView.total = MatchingRows
          /\ previewView.totalPages * 10 >= MatchingRows
          /\ (previewView.totalPages - 1) * 10 < MatchingRows
          /\ 0 <= currentPage
          /\ currentPage <= Max(0, previewView.totalPages - 1)
          /\ Len(previewView.currentRows) <= 10)
  /\ [][searchTerm' # searchTerm => currentPage' = 0]_vars

\* C28 (witness): after a search the user has paged to the last of several
\* pages of matching rows
LastPageOfSearch ==
  /\ previewView.state = "table"
  /\ searchTerm # ""
  /\ currentPage >= 1
  /\ currentPage = previewView.totalPages - 1

\* C27: within an upload, the classification request is issued only when
\* the preview response has succeeded and onUpload has stored its table; a
\* failed preview ends the upload with no classification request and with
\* classificationData as it was; and when the classification response
\* succeeds the table is stored and the active tab is 'classification'
UploadOrdered ==
  [][\A p \in UploadSlots :
       /\ (uploads[p].pc # "classify" /\ uploads'[p].pc = "classify") =>
            /\ uploads[p].pc = "preview"
            /\ previewData' = uploads'[p].file
            /\ uploads'[p].file = uploads[p].file
       /\ (uploads[p].pc = "preview" /\ uploads'[p].pc = "idle") =>
            UNCHANGED classificationData
       /\ (uploads[p].pc = "classify" /\ uploads'[p].pc = "idle") =>
            \/ /\ classificationData' = uploads[p].file
               /\ activeTab' = "classification"
            \/ UNCHANGED <<classificationData, activeTab>>
    ]_vars

\* C27 (witness): an upload has gone through both requests and nothing
\* else has happened since
UploadClassified ==
  /\ activeTab = "classification"
  /\ classificationData # NoData
  /\ previewData = classificationData
  /\ PendingUploads = {}
  /\ ~loading

\* C29: whenever App shows another tab than the upload tab it holds a
\* preview table or a classification table, and the selected label is
\* always CONFIRMED, CANDIDATE or FALSE POSITIVE
AppStateConsistent ==
  /\ activeTab # "upload" =>
       (previewData # NoData \/ classificationData # NoData)
  /\ selectedDisposition \in {"CONFIRMED", "CANDIDATE", "FALSE POSITIVE"}

\* C29 (witness): the user has clicked the card of another label and moved
\* on to a view tab
LabelChosenAndViewOpen ==
  /\ activeTab = "exploration"
  /\ classificationData # NoData
  /\ selectedDisposition = "FALSE POSITIVE"

\* C30: every upload that starts comes to an end once its requests are
\* settled, the loading flag goes back to false, and an upload that ends
\* with a failed preview or a failed classification leaves an error message
UploadTerminates ==
  /\ \A p \in UploadSlots :
       UploadPending(uploads[p]) ~> ~UploadPending(uploads[p])
  /\ loading ~> ~loading
  /\ [][\A p \in UploadSlots :
          (PreviewResponse(p, FALSE) \/ ClassifyResponse(p, FALSE)) =>
            error' # NoError]_vars

============================================================================
